---------------------------- MODULE Spec2Model ----------------------------
(***************************************************************************)
(* Uniform schema compiler, packer and WGSL binding generator of           *)
(* src/src/core/utils/uniformSchema.ts, and the part of                    *)
(* ComputeRenderer (src/src/core/renderers/computeRenderer.ts) that feeds  *)
(* the packer.                                                             *)
(*                                                                         *)
(* A schema is a sequence of [name, type] fields in declaration order      *)
(* (Object.entries order).  A field type is a record                       *)
(*   [kind, prim, hasStruct, struct, length]                               *)
(* kind = "prim"   : the primitive tag is in prim                          *)
(* kind = "struct" : { struct: <schema> }                                  *)
(* kind = "array"  : { array: { struct?, primitive?, length } }; a missing *)
(*                   primitive is prim = "", a missing struct is           *)
(*                   hasStruct = FALSE                                     *)
(***************************************************************************)
EXTENDS Integers, Sequences, FiniteSets, TLC

VARIABLES
    schema,         \* the SchemaDefinition handed to defineUniformSchema
    layout,         \* UniformSchema.layout (Null before defineUniformSchema)
    bindings,       \* text returned by generateBindings (Null before the call)
    buffer,         \* bytes of the ArrayBuffer behind the Float32Array passed to pack
                    \* (ComputeRenderer.uniformDataBuffer in SpecDraw)
    initialFill,    \* the byte the caller's buffer was filled with before the first pack
    staleZeroed,    \* history: the last pack left an array element unsupplied whose
                    \* floats were not all zero before the call
    lastData,       \* history: the value tree of the last pack (Null before)
    lastContext,    \* history: the PackContext of the last pack
    threw,          \* history: the last pack or draw raised an error
    device,         \* ComputeRenderer.device is set
    canvasWidth,    \* ComputeRenderer.canvasWidth
    canvasHeight,   \* ComputeRenderer.canvasHeight
    uniformBuffer,  \* contents of the GPU uniform buffer
    dispatched,     \* workgroup counts of the last compute dispatch
    outputTexture,  \* size of ComputeRenderer.outputTexture (<<>> before it exists)
    lastCall,       \* history: the renderer method or continuation that ran last
    maxTextures,    \* ComputeRenderer.maxTextures
    gpu,            \* the GPU objects created on the device: id -> [kind, width,
                    \* height, destroyed]; a destroyed object nothing refers to is dropped
    held,           \* the renderer's fields that hold GPU objects (ids, 0 = undefined)
                    \* and its two bind groups
    textures,       \* ComputeRenderer.textures (ids)
    textureCache,   \* ComputeRenderer.textureCache: URL -> index
    phase,          \* where initialize() is: none, adapter, device, done, failed
    adapterRequests,\* history: number of requestAdapter() calls
    loads,          \* the loadTexture calls made so far, in call order
    commands,       \* history: what the last step did on the device, in order
    destroyCalled   \* history: destroy() has been called

schemaVars == <<schema, layout, bindings>>
packVars == <<buffer, initialFill, staleZeroed, lastData, lastContext, threw>>
rendererVars ==
    <<device, canvasWidth, canvasHeight, uniformBuffer, dispatched, outputTexture, lastCall,
      maxTextures, gpu, held, textures, textureCache, phase, adapterRequests, loads,
      commands, destroyCalled>>

vars == <<schemaVars, packVars, rendererVars>>

Null == [ok |-> FALSE, none |-> TRUE]

(***************************************************************************)
(* Bounds of the model                                                     *)
(***************************************************************************)
MaxFields == 3      \* fields of a flat top-level schema
MaxInner == 2       \* fields of a nested / element struct
MaxLen == 3         \* declared array length

(***************************************************************************)
(* WGSL primitive types                                                    *)
(***************************************************************************)
Prims == {"f32", "u32", "i32", "vec2f", "vec3f", "vec4f"}

WGSL_TYPE_INFO ==
    [f32   |-> [size |-> 4,  alignment |-> 4,  floatCount |-> 1],
     u32   |-> [size |-> 4,  alignment |-> 4,  floatCount |-> 1],
     i32   |-> [size |-> 4,  alignment |-> 4,  floatCount |-> 1],
     vec2f |-> [size |-> 8,  alignment |-> 8,  floatCount |-> 2],
     vec3f |-> [size |-> 12, alignment |-> 16, floatCount |-> 3],
     vec4f |-> [size |-> 16, alignment |-> 16, floatCount |-> 4]]

(***************************************************************************)
(* Schema constructors                                                     *)
(***************************************************************************)
PrimT(p) == [kind |-> "prim", prim |-> p, hasStruct |-> FALSE, struct |-> <<>>, length |-> 0]
StructT(s) == [kind |-> "struct", prim |-> "", hasStruct |-> TRUE, struct |-> s, length |-> 0]
ArrayOfPrimT(p, n) == [kind |-> "array", prim |-> p, hasStruct |-> FALSE, struct |-> <<>>, length |-> n]
ArrayOfStructT(s, n) == [kind |-> "array", prim |-> "", hasStruct |-> TRUE, struct |-> s, length |-> n]

Field(n, t) == [name |-> n, type |-> t]

(***************************************************************************)
(* calculateStructLayout                                                   *)
(***************************************************************************)
CeilDiv(a, b) == (a + b - 1) \div b

Max(a, b) == IF a >= b THEN a ELSE b

\* Math.ceil(elementLayout.totalSize / 16) * 16
AlignedStructElementSize(totalSize) == CeilDiv(totalSize, 16) * 16

\* mutant: the element keeps the primitive's own size (no 16-byte stride)
AlignedPrimitiveElementSize_NoStride(size) == size

\* Math.max(16, primitiveInfo.size)
AlignedPrimitiveElementSize(size) == Max(16, size)

\* mutant: the padding is the misalignment itself, not its complement
PaddingBytes_Misaligned(currentOffset, alignment) == currentOffset % alignment

\* alignmentOffset === 0 ? 0 : typeInfo.alignment - alignmentOffset
PaddingBytes(currentOffset, alignment) ==
    LET alignmentOffset == currentOffset % alignment
    IN  IF alignmentOffset = 0 THEN 0 ELSE alignment - alignmentOffset

\* mutant: no padding float after a vec3f
PaddingForVec3_None(fieldType) == 0

\* padding floats after a field: 1 after a non-array vec3f, else 0
PaddingForVec3(fieldType) ==
    IF fieldType.kind = "prim" /\ fieldType.prim = "vec3f" THEN 1 ELSE 0

\* mutant: the struct is padded to 8 bytes only
FinalPaddingBytes_To8(currentOffset) ==
    IF currentOffset % 8 = 0 THEN 0 ELSE 8 - (currentOffset % 8)

\* final padding to align the struct to 16 bytes
FinalPaddingBytes(currentOffset) ==
    LET totalAlignmentOffset == currentOffset % 16
    IN  IF totalAlignmentOffset = 0 THEN 0 ELSE 16 - totalAlignmentOffset

\* alignment of nested structs and of arrays
CompositeAlignment == 16

RECURSIVE calculateStructLayout(_)

\* mutant: an error in the nested struct's layout is swallowed
StructTypeInfo_Swallowed(nestedLayout) ==
    [ok |-> TRUE,
     size |-> nestedLayout.totalSize,
     alignment |-> CompositeAlignment,
     floatCount |-> nestedLayout.totalFloats,
     isArray |-> FALSE, arrayLength |-> 0,
     arrayElementSize |-> 0, arrayElementFloats |-> 0]

\* typeInfo of a nested struct with the given layout
StructTypeInfo(nestedLayout) ==
    [ok |-> nestedLayout.ok,
     size |-> nestedLayout.totalSize,
     alignment |-> CompositeAlignment,
     floatCount |-> nestedLayout.totalFloats,
     isArray |-> FALSE, arrayLength |-> 0,
     arrayElementSize |-> 0, arrayElementFloats |-> 0]

\* typeInfo and array attributes of an array of length elements of alignedElementSize
ArrayTypeInfo(ok, alignedElementSize, length) ==
    [ok |-> ok,
     size |-> alignedElementSize * length,
     alignment |-> CompositeAlignment,
     floatCount |-> (alignedElementSize \div 4) * length,
     isArray |-> TRUE, arrayLength |-> length,
     arrayElementSize |-> alignedElementSize,
     arrayElementFloats |-> alignedElementSize \div 4]

StructArrayTypeInfo(elementLayout, length) ==
    ArrayTypeInfo(elementLayout.ok, AlignedStructElementSize(elementLayout.totalSize), length)

\* typeInfo and the array attributes of one field; ok = FALSE when the code throws
TypeInfoOf(fieldType) ==
    IF fieldType.kind = "prim" THEN
        [ok |-> TRUE,
         size |-> WGSL_TYPE_INFO[fieldType.prim].size,
         alignment |-> WGSL_TYPE_INFO[fieldType.prim].alignment,
         floatCount |-> WGSL_TYPE_INFO[fieldType.prim].floatCount,
         isArray |-> FALSE, arrayLength |-> 0,
         arrayElementSize |-> 0, arrayElementFloats |-> 0]
    ELSE IF fieldType.kind = "struct" THEN
        StructTypeInfo(calculateStructLayout(fieldType.struct))
    ELSE IF fieldType.hasStruct THEN
        StructArrayTypeInfo(calculateStructLayout(fieldType.struct), fieldType.length)
    ELSE IF fieldType.prim # "" THEN
        ArrayTypeInfo(TRUE, AlignedPrimitiveElementSize(WGSL_TYPE_INFO[fieldType.prim].size),
                      fieldType.length)
    ELSE
        \* throw new Error("Array definition ... must have either 'struct' or 'primitive'")
        [ok |-> FALSE, size |-> 0, alignment |-> CompositeAlignment, floatCount |-> 0,
         isArray |-> TRUE, arrayLength |-> fieldType.length,
         arrayElementSize |-> 0, arrayElementFloats |-> 0]

\* the running state after a field with the given typeInfo is placed at offset /
\* floatOffset and followed by paddingAfter floats
PlaceField(acc, field, typeInfo, offset, floatOffset, paddingAfter) ==
    [ok |-> TRUE,
     fields |-> Append(acc.fields,
                    [name |-> field.name, type |-> field.type,
                     offset |-> offset, size |-> typeInfo.size,
                     floatOffset |-> floatOffset, floatCount |-> typeInfo.floatCount,
                     paddingAfter |-> paddingAfter,
                     isArray |-> typeInfo.isArray,
                     arrayLength |-> typeInfo.arrayLength,
                     arrayElementSize |-> typeInfo.arrayElementSize,
                     arrayElementFloats |-> typeInfo.arrayElementFloats]),
     currentOffset |-> offset + typeInfo.size + paddingAfter * 4,
     currentFloatOffset |-> floatOffset + typeInfo.floatCount + paddingAfter]

\* one field after paddingBytes of alignment padding
AlignField(acc, field, typeInfo, paddingBytes) ==
    PlaceField(acc, field, typeInfo, acc.currentOffset + paddingBytes,
               acc.currentFloatOffset + paddingBytes \div 4, PaddingForVec3(field.type))

\* the body of the for loop for one field, on the running state acc
LayoutField(acc, field, typeInfo) ==
    IF ~typeInfo.ok THEN [acc EXCEPT !.ok = FALSE]
    ELSE AlignField(acc, field, typeInfo, PaddingBytes(acc.currentOffset, typeInfo.alignment))

\* the for loop from field i on
RECURSIVE LayoutFields(_, _, _)
LayoutFields(sch, i, acc) ==
    IF i > Len(sch) \/ ~acc.ok THEN acc
    ELSE LayoutFields(sch, i + 1, LayoutField(acc, sch[i], TypeInfoOf(sch[i].type)))

\* totalSize and totalFloats after finalPaddingBytes of final padding
PaddedLayout(acc, finalPaddingBytes) ==
    IF ~acc.ok
    THEN [ok |-> FALSE, fields |-> <<>>, totalSize |-> 0, totalFloats |-> 0]
    ELSE [ok |-> TRUE,
          fields |-> acc.fields,
          totalSize |-> acc.currentOffset + finalPaddingBytes,
          totalFloats |-> acc.currentFloatOffset + finalPaddingBytes \div 4]

FinishLayout(acc) == PaddedLayout(acc, FinalPaddingBytes(acc.currentOffset))

calculateStructLayout(sch) ==
    FinishLayout(LayoutFields(sch, 1,
        [ok |-> TRUE, fields |-> <<>>, currentOffset |-> 0, currentFloatOffset |-> 0]))


(***************************************************************************)
(* WGSL code generation.  The generated text is modelled as its sequence   *)
(* of struct declarations, each a name and its member lines                *)
(* "  <name>: <type>," in order; a member type is a plain type name or     *)
(* array<typeName, length>.                                                *)
(***************************************************************************)
\* str.charAt(0).toUpperCase() + str.slice(1), on the field names of the model
capitalize(str) ==
    CASE str = "a" -> "A" [] str = "b" -> "B" [] str = "c" -> "C"
      [] str = "d" -> "D" [] str = "e" -> "E"
      [] str = "x" -> "X" [] str = "y" -> "Y" [] str = "z" -> "Z"
      [] str = "u" -> "U" [] str = "v" -> "V" [] str = "w" -> "W"
      [] str = "screenResolution" -> "ScreenResolution"
      [] OTHER -> str

PlainMember(n, t) == [name |-> n, isArray |-> FALSE, typeName |-> t, length |-> 0]
ArrayMember(n, t, len) == [name |-> n, isArray |-> TRUE, typeName |-> t, length |-> len]

\* `  _padding${paddingCounter++}: f32,`
PaddingMember(paddingCounter) == PlainMember("_padding" \o ToString(paddingCounter), "f32")

RECURSIVE PaddingMembers(_, _)
PaddingMembers(paddingCounter, count) ==
    IF count <= 0 THEN <<>>
    ELSE <<PaddingMember(paddingCounter)>> \o PaddingMembers(paddingCounter + 1, count - 1)

\* the lines one field contributes to a struct declaration
FieldMembers(field, paddingCounter, skipArrays) ==
    IF field.isArray THEN
        IF skipArrays THEN <<>>
        ELSE IF field.type.kind = "array" /\ field.type.hasStruct THEN
            <<ArrayMember(field.name, capitalize(field.name) \o "Element", field.arrayLength)>>
        ELSE IF field.type.kind = "array" /\ field.type.prim # "" THEN
            <<ArrayMember(field.name, field.type.prim, field.arrayLength)>>
        ELSE <<>>
    ELSE IF field.type.kind = "prim" THEN
        <<PlainMember(field.name, field.type.prim)>>
            \o PaddingMembers(paddingCounter, field.paddingAfter)
    ELSE IF field.type.kind = "struct" THEN
        <<PlainMember(field.name, capitalize(field.name))>>
    ELSE <<>>

\* number of _padding lines FieldMembers emitted for the field
FieldPaddingCount(field) ==
    IF ~field.isArray /\ field.type.kind = "prim" THEN field.paddingAfter ELSE 0

\* final padding lines of a struct declaration
FinalPaddingCount(lay, skipArrays) ==
    IF skipArrays \/ Len(lay.fields) = 0 THEN 0
    ELSE LET lastField == lay.fields[Len(lay.fields)]
         IN  IF lastField.isArray THEN 0
             ELSE lay.totalFloats
                    - (lastField.floatOffset + lastField.floatCount + lastField.paddingAfter)

RECURSIVE StructMembers(_, _, _, _, _)
StructMembers(lay, i, paddingCounter, skipArrays, lines) ==
    IF i > Len(lay.fields)
    THEN lines \o PaddingMembers(paddingCounter, FinalPaddingCount(lay, skipArrays))
    ELSE StructMembers(lay, i + 1,
            paddingCounter + FieldPaddingCount(lay.fields[i]), skipArrays,
            lines \o FieldMembers(lay.fields[i], paddingCounter, skipArrays))

generateWGSLStruct(name, lay, skipArrays) ==
    [name |-> name, members |-> StructMembers(lay, 1, 1, skipArrays, <<>>)]

\* the nested struct declarations of generateWGSLBindings, one top-level field at a time
RECURSIVE NestedStructs(_, _)
NestedStructs(sch, i) ==
    IF i > Len(sch) THEN <<>>
    ELSE LET name == sch[i].name
             fieldType == sch[i].type
             here ==
                IF fieldType.kind = "struct" THEN
                    <<generateWGSLStruct(capitalize(name),
                          calculateStructLayout(fieldType.struct), FALSE)>>
                ELSE IF fieldType.kind = "array" /\ fieldType.hasStruct THEN
                    <<generateWGSLStruct(capitalize(name) \o "Element",
                          calculateStructLayout(fieldType.struct), TRUE)>>
                ELSE <<>>
         IN  here \o NestedStructs(sch, i + 1)

BindingLines ==
    <<"@binding(0) @group(0) var<uniform> uniforms: Uniforms;",
      "@binding(1) @group(0) var outputTexture: texture_storage_2d<rgba8unorm, write>;">>

generateWGSLBindings(sch) ==
    LET lay == calculateStructLayout(sch)
    IN  IF ~lay.ok
        THEN [ok |-> FALSE, structs |-> <<>>, bindingLines |-> <<>>]
        ELSE [ok |-> TRUE,
              structs |-> NestedStructs(sch, 1) \o <<generateWGSLStruct("Uniforms", lay, FALSE)>>,
              bindingLines |-> BindingLines]


(***************************************************************************)
(* Data packing.  The ArrayBuffer is a sequence of bytes (byte offset b is *)
(* element b + 1).  A Float32Array view of it is [base, len]: its byte     *)
(* offset in the ArrayBuffer and its length in floats; typed arrays store  *)
(* in platform byte order, little-endian on every WebGPU platform.         *)
(*                                                                         *)
(* A DataValue is a number (t = "num"), an array (t = "arr", items its     *)
(* elements), an object (t = "obj", items its [name, value] entries in the *)
(* caller's order) or undefined (t = "undef").                             *)
(***************************************************************************)
\* numbers are sign and magnitude, the magnitude hi * 2^16 + lo, so that the whole
\* u32 range is representable
NumLimbs(neg, hi, lo) == [t |-> "num", neg |-> neg, hi |-> hi, lo |-> lo, items |-> <<>>]
Num(n) ==
    LET m == IF n < 0 THEN -n ELSE n
    IN  NumLimbs(n < 0, m \div 65536, m % 65536)
Arr(items) == [t |-> "arr", neg |-> FALSE, hi |-> 0, lo |-> 0, items |-> items]
Obj(entries) == [t |-> "obj", neg |-> FALSE, hi |-> 0, lo |-> 0, items |-> entries]
Undefined == [t |-> "undef", neg |-> FALSE, hi |-> 0, lo |-> 0, items |-> <<>>]
Entry(name, value) == [name |-> name, value |-> value]

RECURSIVE Pow2(_)
Pow2(k) == IF k = 0 THEN 1 ELSE 2 * Pow2(k - 1)

\* floor(log2(m)) for m >= 1
RECURSIVE FloorLog2(_)
FloorLog2(m) == IF m < 2 THEN 0 ELSE 1 + FloorLog2(m \div 2)

\* a 32-bit word is its four bytes, least significant first
WordOf(hi, lo) == <<lo % 256, lo \div 256, hi % 256, hi \div 256>>

\* the canonical quiet NaN (0x7FC00000) a Float32Array store of NaN writes
NaNWord == <<0, 0, 192, 127>>

\* IEEE-754 binary32 pattern of sign, biased exponent and 23-bit fraction
F32Word(neg, biased, frac) ==
    <<frac % 256,
      (frac \div 256) % 256,
      (biased % 2) * 128 + frac \div 65536,
      (IF neg THEN 128 ELSE 0) + biased \div 2>>

\* the pattern of +-sig * 2^(e - 23), 2^23 <= sig <= 2^24
F32Normal(neg, e, sig) ==
    IF sig = 16777216 THEN F32Word(neg, e + 128, 0)
    ELSE F32Word(neg, e + 127, sig - 8388608)

\* q + r / drop rounded to nearest, ties to even
RoundedToEven(q, r, drop) ==
    IF 2 * r > drop \/ (2 * r = drop /\ q % 2 = 1) THEN q + 1 ELSE q

\* the magnitude with leading bit e > 23 keeps its upper 24 bits; drop = 2^(e - 23)
F32Dropping(neg, hi, lo, e, drop) ==
    F32Normal(neg, e, RoundedToEven(hi * (65536 \div drop) + lo \div drop, lo % drop, drop))

F32WithExponent(neg, hi, lo, e) ==
    IF e > 23 THEN F32Dropping(neg, hi, lo, e, Pow2(e - 23))
    ELSE F32Normal(neg, e, (hi * 65536 + lo) * Pow2(23 - e))

\* binary32 pattern of the integer +-(hi * 2^16 + lo) < 2^32, rounded to nearest,
\* ties to even
F32WordOf(neg, hi, lo) ==
    IF hi = 0 /\ lo = 0 THEN <<0, 0, 0, 0>>
    ELSE F32WithExponent(neg, hi, lo, IF hi > 0 THEN 16 + FloorLog2(hi) ELSE FloorLog2(lo))

\* ToNumber(value) stored into a Float32Array element
FloatWordOf(value) ==
    IF value.t = "num" THEN F32WordOf(value.neg, value.hi, value.lo) ELSE NaNWord

\* ToInt32 / ToUint32 of the value: the magnitude modulo 2^32, negated in two's
\* complement for a negative number; NaN becomes 0
IntWordOf(value) ==
    IF value.t # "num" THEN <<0, 0, 0, 0>>
    ELSE LET hi == value.hi % 65536
             lo == value.lo
         IN  IF ~value.neg THEN WordOf(hi, lo)
             ELSE IF lo = 0 THEN WordOf((65536 - hi) % 65536, 0)
             ELSE WordOf(65535 - hi, 65536 - lo)

\* the bytes at byteOffset .. byteOffset + 3 replaced by the word, in the byte order
WriteWord(buf, byteOffset, word, littleEndian) ==
    SubSeq(buf, 1, byteOffset)
        \o (IF littleEndian THEN word ELSE <<word[4], word[3], word[2], word[1]>>)
        \o SubSeq(buf, byteOffset + 5, Len(buf))

View(base, len) == [base |-> base, len |-> len]

\* new Float32Array(buffer.buffer, buffer.byteOffset + floatOffset * 4, floats)
SubView(view, floatOffset, floats) == View(view.base + floatOffset * 4, floats)

\* buffer[index] = value on a Float32Array view: an index outside the view is ignored
StoreFloat(st, view, index, value) ==
    IF index < 0 \/ index >= view.len THEN st
    ELSE [st EXCEPT !.buf = WriteWord(st.buf, view.base + 4 * index,
                                      FloatWordOf(value), TRUE)]

\* buffer[index] = 0
StoreZero(st, view, index) == StoreFloat(st, view, index, Num(0))

\* the sum modulo 2^32 of two words
AddWords(v, w) ==
    LET s1 == v[1] + w[1]
        s2 == v[2] + w[2] + s1 \div 256
        s3 == v[3] + w[3] + s2 \div 256
        s4 == v[4] + w[4] + s3 \div 256
    IN  <<s1 % 256, s2 % 256, s3 % 256, s4 % 256>>

\* mutant: the integer is added to the 32-bit word already in the buffer
SetInt32_Accumulate(st, view, byteOffset, value) ==
    LET at == view.base + byteOffset
        old == <<st.buf[at + 1], st.buf[at + 2], st.buf[at + 3], st.buf[at + 4]>>
    IN  IF at + 4 > Len(st.buf) THEN [st EXCEPT !.ok = FALSE]
        ELSE [st EXCEPT !.buf = WriteWord(st.buf, at, AddWords(old, IntWordOf(value)), TRUE)]

\* new DataView(buffer.buffer, buffer.byteOffset).setInt32(byteOffset, value, true),
\* and setUint32 likewise: both store the value modulo 2^32, little-endian; an
\* offset past the end of the ArrayBuffer throws a RangeError
SetInt32(st, view, byteOffset, value) ==
    LET at == view.base + byteOffset
    IN  IF at + 4 > Len(st.buf) THEN [st EXCEPT !.ok = FALSE]
        ELSE [st EXCEPT !.buf = WriteWord(st.buf, at, IntWordOf(value), TRUE)]

\* mutant: the integer goes through the Float32Array like a float
StoreScalar_ViaFloat(st, view, floatOffset, prim, value) ==
    StoreFloat(st, view, floatOffset, value)

\* the scalar branch: i32 / u32 through the DataView, f32 through the Float32Array
StoreScalar(st, view, floatOffset, prim, value) ==
    IF prim = "i32" \/ prim = "u32"
    THEN SetInt32(st, view, floatOffset * 4, value)
    ELSE StoreFloat(st, view, floatOffset, value)

\* value[i] of a JavaScript array (0-based), undefined past its end
ItemAt(value, i) ==
    IF value.t = "arr" /\ i < Len(value.items) THEN value.items[i + 1] ELSE Undefined

\* for (i = 0; i < floatCount; i++) buffer[floatOffset + i] = value[i]
RECURSIVE StoreVector(_, _, _, _, _, _)
StoreVector(st, view, floatOffset, value, i, floatCount) ==
    IF i >= floatCount THEN st
    ELSE StoreVector(StoreFloat(st, view, floatOffset + i, ItemAt(value, i)),
                     view, floatOffset, value, i + 1, floatCount)

\* mutant: unused floats are left as they are
ZeroFill_Skip(st, view, from, to) == st

\* for (j = from; j < to; j++) buffer[j] = 0
RECURSIVE ZeroFill(_, _, _, _)
ZeroFill(st, view, from, to) ==
    IF from >= to THEN st
    ELSE ZeroFill(StoreZero(st, view, from), view, from + 1, to)

\* data[name] of an object; undefined if the object has no such property
RECURSIVE Lookup(_, _, _)
Lookup(entries, name, i) ==
    IF i > Len(entries) THEN Undefined
    ELSE IF entries[i].name = name THEN entries[i].value
    ELSE Lookup(entries, name, i + 1)

ReservedName == "screenResolution"

\* mutant: the reserved field is taken from the caller's tree like any other
FieldValue_FromTree(data, name, context) ==
    IF data.t = "obj" THEN Lookup(data.items, name, 1) ELSE Undefined

\* field.name === "screenResolution" ? [canvasWidth, canvasHeight] : data[field.name]
FieldValue(data, name, context) ==
    IF name = ReservedName
    THEN Arr(<<Num(context.canvasWidth), Num(context.canvasHeight)>>)
    ELSE IF data.t = "obj" THEN Lookup(data.items, name, 1) ELSE Undefined

\* data[field.name] throws a TypeError when data is undefined
FieldValueThrows(data, name) == name # ReservedName /\ data.t = "undef"

\* arrayData && i < arrayData.length
Supplied(arrayData, i) == arrayData.t = "arr" /\ i < Len(arrayData.items)

\* the vector branch for an array value, the scalar branch otherwise
StorePrimitive(st, view, floatOffset, prim, value) ==
    IF value.t = "arr"
    THEN StoreVector(st, view, floatOffset, value, 0, WGSL_TYPE_INFO[prim].floatCount)
    ELSE StoreScalar(st, view, floatOffset, prim, value)

\* the zero-fill that follows a store, unless the store threw
ThenZeroFill(stored, view, from, to) ==
    IF ~stored.ok THEN stored ELSE ZeroFill(stored, view, from, to)

\* one element of an array of primitives
PackPrimitiveElement(st, view, elementOffset, prim, elementFloats, arrayData, i) ==
    IF Supplied(arrayData, i)
    THEN ThenZeroFill(StorePrimitive(st, view, elementOffset, prim, ItemAt(arrayData, i)),
                      view, elementOffset + WGSL_TYPE_INFO[prim].floatCount,
                      elementOffset + elementFloats)
    ELSE ZeroFill(st, view, elementOffset, elementOffset + elementFloats)

RECURSIVE packData(_, _, _, _, _)

\* element i of an array field, at float elementOffset
PackElement(st, view, field, arrayData, elementLayout, context, i, elementOffset) ==
    IF field.type.hasStruct THEN
        IF Supplied(arrayData, i)
        THEN packData(ItemAt(arrayData, i), elementLayout, st,
                      SubView(view, elementOffset, field.arrayElementFloats), context)
        ELSE ZeroFill(st, view, elementOffset, elementOffset + field.arrayElementFloats)
    ELSE IF field.type.prim # "" THEN
        PackPrimitiveElement(st, view, elementOffset, field.type.prim,
                             field.arrayElementFloats, arrayData, i)
    ELSE st

\* the elements i .. arrayLength - 1 of an array field
RECURSIVE PackElements(_, _, _, _, _, _, _)
PackElements(st, view, field, arrayData, elementLayout, context, i) ==
    IF i >= field.arrayLength \/ ~st.ok THEN st
    ELSE PackElements(
            PackElement(st, view, field, arrayData, elementLayout, context, i,
                        field.floatOffset + i * field.arrayElementFloats),
            view, field, arrayData, elementLayout, context, i + 1)

\* the body of the for loop for one field and its value
PackValue(field, value, st, view, context) ==
    IF field.isArray THEN
        IF field.type.kind # "array" THEN st
        ELSE PackElements(st, view, field, value,
                IF field.type.hasStruct
                THEN calculateStructLayout(field.type.struct)
                ELSE Null,
                context, 0)
    ELSE IF field.type.kind = "prim" THEN
        ThenZeroFill(
            StorePrimitive(st, view, field.floatOffset, field.type.prim, value),
            view, field.floatOffset + WGSL_TYPE_INFO[field.type.prim].floatCount,
            field.floatOffset + WGSL_TYPE_INFO[field.type.prim].floatCount
                + field.paddingAfter)
    ELSE IF field.type.kind = "struct" THEN
        packData(value, calculateStructLayout(field.type.struct), st,
                 SubView(view, field.floatOffset, field.floatCount), context)
    ELSE st

PackField(data, field, st, view, context) ==
    IF FieldValueThrows(data, field.name) THEN [st EXCEPT !.ok = FALSE]
    ELSE PackValue(field, FieldValue(data, field.name, context), st, view, context)

\* the for loop over layout.fields, from field i on
RECURSIVE PackFields(_, _, _, _, _, _)
PackFields(data, lay, st, view, context, i) ==
    IF i > Len(lay.fields) \/ ~st.ok THEN st
    ELSE PackFields(data, lay, PackField(data, lay.fields[i], st, view, context),
                    view, context, i + 1)

\* the final padding after lastField, unless it is an array
FinalPadding(packed, lastField, view, totalFloats) ==
    IF lastField.isArray THEN packed
    ELSE ZeroFill(packed, view,
                  lastField.floatOffset + lastField.floatCount + lastField.paddingAfter,
                  totalFloats)

AfterFields(packed, lay, view) ==
    IF ~packed.ok \/ Len(lay.fields) = 0 THEN packed
    ELSE FinalPadding(packed, lay.fields[Len(lay.fields)], view, lay.totalFloats)

\* packData(data, layout, buffer, context); st = [buf, ok], ok = FALSE once it threw
packData(data, lay, st, view, context) ==
    AfterFields(PackFields(data, lay, st, view, context, 1), lay, view)

\* UniformPacker.pack(data, buffer, context) on a Float32Array over the whole buffer
pack(data, buf, context, lay) ==
    packData(data, lay, [buf |-> buf, ok |-> TRUE], View(0, Len(buf) \div 4), context)

(***************************************************************************)
(* Schemas of the model.  Top-level fields are named a, b, c, ... in       *)
(* declaration order, the fields of a nested or element struct x, y, ...,  *)
(* the fields of a struct nested one level deeper u.                       *)
(***************************************************************************)
TopNames == <<"a", "b", "c", "d", "e", "f">>
InnerNames == <<"x", "y", "z", "w">>
DeepNames == <<"u", "v">>

SeqsOf(S, lo, hi) == UNION {[1..k -> S] : k \in lo..hi}

Named(types, names) == [i \in 1..Len(types) |-> Field(names[i], types[i])]

PrimTypes == {PrimT(p) : p \in Prims}

ArrayLengths == 1..MaxLen

CompositesOver(schemas) ==
    {ArrayOfPrimT(p, n) : p \in Prims, n \in ArrayLengths}
        \cup {StructT(s) : s \in schemas}
        \cup {ArrayOfStructT(s, n) : s \in schemas, n \in ArrayLengths}

InnerSchemas == {Named(ts, InnerNames) : ts \in SeqsOf(PrimTypes, 1, MaxInner)}

DeepSchemas == {Named(ts, DeepNames) : ts \in SeqsOf(PrimTypes, 1, 1)}

\* a struct or element struct whose only field is itself a composite
NestingSchemas == {Named(<<c>>, InnerNames) : c \in CompositesOver(DeepSchemas)}

CompositeTypes ==
    CompositesOver(InnerSchemas)
        \cup {StructT(s) : s \in NestingSchemas}
        \cup {ArrayOfStructT(s, n) : s \in NestingSchemas, n \in ArrayLengths}

FlatSchemas == {Named(ts, TopNames) : ts \in SeqsOf(PrimTypes, 0, MaxFields)}

\* one composite field with at most one primitive field before and after it
MixedSchemas ==
    {Named(pre \o <<c>> \o post, TopNames) :
        pre \in SeqsOf(PrimTypes, 0, 1), c \in CompositeTypes, post \in SeqsOf(PrimTypes, 0, 1)}

LayoutSchemas == FlatSchemas \cup MixedSchemas

(***************************************************************************)
(* Specification SpecLayout: defineUniformSchema, then                     *)
(* createPacker().generateBindings(), on every schema of LayoutSchemas     *)
(***************************************************************************)
NoContext == [canvasWidth |-> 0, canvasHeight |-> 0]

PackerIdle ==
    /\ buffer = <<>>
    /\ initialFill = 0
    /\ staleZeroed = FALSE
    /\ lastData = Null
    /\ lastContext = NoContext
    /\ threw = FALSE

\* no bind group yet
NoBindGroup == <<>>

\* the fields of a renderer before createResources()
NoObjects ==
    [outputTexture |-> 0, verticesBuffer |-> 0, uniformBuffer |-> 0, dummyTexture |-> 0,
     computePipeline |-> 0, displayPipeline |-> 0, sampler |-> 0, textureSampler |-> 0,
     renderPassDescriptor |-> FALSE,
     computeBindGroup |-> NoBindGroup, displayBindGroup |-> NoBindGroup]

RendererIdle ==
    /\ device = FALSE
    /\ canvasWidth = 0
    /\ canvasHeight = 0
    /\ uniformBuffer = <<>>
    /\ dispatched = <<0, 0>>
    /\ outputTexture = <<>>
    /\ lastCall = "none"
    /\ maxTextures = 0
    /\ gpu = <<>>
    /\ held = NoObjects
    /\ textures = <<>>
    /\ textureCache = {}
    /\ phase = "none"
    /\ adapterRequests = 0
    /\ loads = <<>>
    /\ commands = <<>>
    /\ destroyCalled = FALSE

InitLayout ==
    /\ schema \in LayoutSchemas
    /\ layout = Null
    /\ bindings = Null
    /\ PackerIdle
    /\ RendererIdle

\* defineUniformSchema(schema): layout = calculateStructLayout(schema)
DefineUniformSchema ==
    /\ layout = Null
    /\ layout' = calculateStructLayout(schema)
    /\ UNCHANGED <<schema, bindings, packVars, rendererVars>>

\* createPacker().generateBindings()
GenerateBindings ==
    /\ layout # Null
    /\ layout.ok
    /\ bindings = Null
    /\ bindings' = generateWGSLBindings(schema)
    /\ UNCHANGED <<schema, layout, packVars, rendererVars>>

NextLayout == DefineUniformSchema \/ GenerateBindings

SpecLayout == InitLayout /\ [][NextLayout]_vars


(***************************************************************************)
(* Schemas and value trees of the packer specifications.  Arrays have the  *)
(* declared length MaxPackLen; a value tree mirrors its schema, except     *)
(* that an array may be absent, shorter or longer than declared and that   *)
(* the reserved field may be present or absent.                            *)
(***************************************************************************)
MaxPackLen == 2

PackInnerSchemas ==
    {Named(ts, InnerNames) :
        ts \in {<<PrimT("f32")>>,
                <<PrimT("vec3f"), PrimT("i32")>>,
                <<PrimT("u32"), PrimT("vec2f")>>}}

PackTypes ==
    PrimTypes
        \cup {ArrayOfPrimT(p, MaxPackLen) : p \in Prims}
        \cup {StructT(s) : s \in PackInnerSchemas}
        \cup {ArrayOfStructT(s, MaxPackLen) : s \in PackInnerSchemas}

\* the uniforms of the repository's scenes start with screenResolution: vec2f
ReservedField == Field(ReservedName, PrimT("vec2f"))

\* one field of any type, alone, after an f32 field or before one; integer scalars
\* next to integer arrays and structs; and the reserved field alone, first or last
PackSchemas ==
    {Named(<<t>>, TopNames) : t \in PackTypes}
        \cup {Named(<<PrimT("f32"), t>>, TopNames) : t \in PackTypes}
        \cup {Named(<<t, PrimT("f32")>>, TopNames) : t \in PackTypes}
        \cup {Named(<<ArrayOfPrimT("i32", MaxPackLen), PrimT("u32")>>, TopNames)}
        \cup {Named(<<PrimT("i32"), StructT(s)>>, TopNames) : s \in PackInnerSchemas}
        \cup {<<ReservedField>>,
              <<ReservedField>> \o Named(<<PrimT("i32")>>, TopNames),
              Named(<<PrimT("vec3f")>>, TopNames) \o <<ReservedField>>}

\* the numbers a value tree gives a field of a primitive type, first and second choice
\* first; the integers are the ends of the i32 / u32 ranges and 2^24 + 1
ValueList(prim) ==
    CASE prim = "f32" -> <<Num(1), Num(-2)>>
      [] prim = "i32" -> <<Num(-1), NumLimbs(TRUE, 32768, 0), Num(16777217), Num(2147483647)>>
      [] prim = "u32" -> <<NumLimbs(FALSE, 65535, 65535), Num(16777217),
                           NumLimbs(FALSE, 32768, 0), Num(1)>>
      [] prim = "vec2f" -> <<Arr(<<Num(1), Num(-2)>>), Arr(<<Num(640), Num(3)>>)>>
      [] prim = "vec3f" -> <<Arr(<<Num(1), Num(-2), Num(3)>>),
                             Arr(<<Num(640), Num(3), Num(-1)>>)>>
      [] prim = "vec4f" -> <<Arr(<<Num(1), Num(-2), Num(3), Num(5)>>),
                             Arr(<<Num(640), Num(3), Num(-1), Num(1)>>)>>

Cyclic(list, i) == list[((i - 1) % Len(list)) + 1]

Reverse(seq) == [i \in 1..Len(seq) |-> seq[Len(seq) + 1 - i]]

\* an object for a struct of primitive fields: choice v of every field's values, the
\* entries in declaration order for odd v and in reverse order for even v
StructValue(sch, v) ==
    LET entries == [i \in 1..Len(sch) |->
                        Entry(sch[i].name, Cyclic(ValueList(sch[i].type.prim), v))]
    IN  Obj(IF v % 2 = 1 THEN entries ELSE Reverse(entries))

\* element i (1-based) of the array a value tree gives an array field
ElementValue(type, i) ==
    IF type.hasStruct THEN StructValue(type.struct, i)
    ELSE Cyclic(ValueList(type.prim), i)

ValuesOfType(type) ==
    IF type.kind = "prim" THEN {ValueList(type.prim)[i] : i \in 1..Len(ValueList(type.prim))}
    ELSE IF type.kind = "struct" THEN {StructValue(type.struct, v) : v \in 1..2}
    ELSE {Undefined}
            \cup {Arr([i \in 1..k |-> ElementValue(type, i)]) : k \in 0..(type.length + 1)}

\* the entry lists of the value trees for the fields i .. of a schema
RECURSIVE EntryLists(_, _)
EntryLists(sch, i) ==
    IF i > Len(sch) THEN {<<>>}
    ELSE LET here ==
                IF sch[i].name = ReservedName
                THEN {<<>>, <<Entry(ReservedName, Arr(<<Num(1), Num(-2)>>))>>}
                ELSE {<<Entry(sch[i].name, v)>> : v \in ValuesOfType(sch[i].type)}
         IN  {h \o rest : h \in here, rest \in EntryLists(sch, i + 1)}

DataFor(sch) == {Obj(entries) : entries \in EntryLists(sch, 1)}

PackContext(w, h) == [canvasWidth |-> w, canvasHeight |-> h]

\* width and height of a canvas
CanvasSizes == {<<8, 9>>, <<9, 8>>}

PackContexts == {PackContext(8, 9), PackContext(9, 8)}

Filled(n, byte) == [i \in 1..n |-> byte]

\* a byte of junk in a buffer the caller did not clear
JunkByte == 171

(***************************************************************************)
(* Specification SpecPack: packer.pack(data, buffer, context) called any   *)
(* number of times on one caller-owned buffer of bufferSize bytes, which   *)
(* the caller hands over zeroed or full of junk                            *)
(***************************************************************************)
InitPack ==
    /\ schema \in PackSchemas
    /\ layout = calculateStructLayout(schema)
    /\ bindings = Null
    /\ initialFill \in {0, JunkByte}
    /\ buffer = Filled(layout.totalSize, initialFill)
    /\ staleZeroed = FALSE
    /\ lastData = Null
    /\ lastContext = NoContext
    /\ threw = FALSE
    /\ RendererIdle

\* the bytes of the elements from..arrayLength - 1 of a top-level array field
ElementBytes(buf, field, from) ==
    SubSeq(buf, field.offset + from * field.arrayElementSize + 1, field.offset + field.size)

\* number of elements of the field's array that pack takes from the value tree
SuppliedCount(data, field) ==
    LET value == FieldValue(data, field.name, NoContext)
    IN  IF value.t = "arr"
        THEN (IF Len(value.items) < field.arrayLength
              THEN Len(value.items) ELSE field.arrayLength)
        ELSE 0

AllZero(bytes) == \A i \in 1..Len(bytes) : bytes[i] = 0

\* some array field has unsupplied elements whose bytes in buf are not all zero
HasStaleElements(data, buf) ==
    \E i \in 1..Len(layout.fields) :
        /\ layout.fields[i].isArray
        /\ ~AllZero(ElementBytes(buf, layout.fields[i], SuppliedCount(data, layout.fields[i])))

\* the effect on the packer's variables of a call in which pack(data, buffer,
\* context) came to r; raised: the call raised an error after the pack
PackedResult(r, data, context, raised) ==
    /\ buffer' = r.buf
    /\ threw' = (~r.ok \/ raised)
    /\ staleZeroed' = HasStaleElements(data, buffer)
    /\ lastData' = data
    /\ lastContext' = context
    /\ UNCHANGED initialFill

\* the effect of pack(data, buffer, context) on the packer's variables
Packed(data, context) ==
    \E r \in {pack(data, buffer, context, layout)} : PackedResult(r, data, context, FALSE)

Pack(data, context) ==
    /\ layout.ok
    /\ Packed(data, context)
    /\ UNCHANGED <<schemaVars, rendererVars>>

NextPack == \E data \in DataFor(schema), context \in PackContexts : Pack(data, context)

SpecPack == InitPack /\ [][NextPack]_vars

(***************************************************************************)
(* Specification SpecDraw: a ComputeRenderer over a schema, constructed    *)
(* with a width and a height, then initialize(), resize(w, h) and          *)
(* draw(uniformData) in any order, without texture support.               *)
(***************************************************************************)
\* a struct holding the reserved name itself
ReservedInner == <<ReservedField, Field("x", PrimT("f32"))>>

DrawTypes ==
    {PrimT("f32"), PrimT("i32"), PrimT("vec3f"), ArrayOfPrimT("f32", MaxPackLen),
     StructT(Named(<<PrimT("u32"), PrimT("vec2f")>>, InnerNames)),
     StructT(ReservedInner)}

\* the reserved field declared with any float type, first, last, nested or absent
DrawSchemas ==
    {<<ReservedField>> \o Named(<<t>>, TopNames) : t \in DrawTypes}
        \cup {Named(<<t>>, TopNames) \o <<ReservedField>> : t \in {PrimT("f32"), PrimT("vec3f")}}
        \cup {<<Field(ReservedName, PrimT(p))>> : p \in {"f32", "vec2f", "vec4f"}}
        \cup {Named(<<t>>, TopNames) : t \in {PrimT("vec3f"), StructT(ReservedInner)}}

\* a struct value for ReservedInner, with and without an entry under the reserved name
ReservedInnerValues ==
    {Obj(<<Entry("x", Num(1))>>),
     Obj(<<Entry("x", Num(-2)), Entry(ReservedName, Arr(<<Num(3), Num(5)>>))>>)}

\* the entry lists of the value trees handed to draw
RECURSIVE DrawEntryLists(_, _)
DrawEntryLists(sch, i) ==
    IF i > Len(sch) THEN {<<>>}
    ELSE LET here ==
                IF sch[i].name = ReservedName
                THEN {<<>>, <<Entry(ReservedName, Arr(<<Num(1), Num(-2)>>))>>}
                ELSE IF sch[i].type = StructT(ReservedInner)
                THEN {<<Entry(sch[i].name, v)>> : v \in ReservedInnerValues}
                ELSE {<<Entry(sch[i].name, v)>> : v \in ValuesOfType(sch[i].type)}
         IN  {h \o rest : h \in here, rest \in DrawEntryLists(sch, i + 1)}

\* value trees with the entries in declaration order and in reverse order
DrawDataFor(sch) ==
    {Obj(entries) : entries \in DrawEntryLists(sch, 1)}
        \cup {Obj(Reverse(entries)) : entries \in DrawEntryLists(sch, 1)}

\* config.workgroupSize || [8, 8]
workgroupSize == <<8, 8>>

(***************************************************************************)
(* GPU objects.  Every object the renderer creates on the device gets the  *)
(* smallest id no object of the heap has; destroy() marks an object,       *)
(* and a marked object that no field, bind group or texture slot refers to *)
(* any more is dropped from the heap.                                      *)
(***************************************************************************)
GpuObject(kind, width, height) ==
    [kind |-> kind, width |-> width, height |-> height, destroyed |-> FALSE]

NewId(g) ==
    CHOOSE n \in 1..(Cardinality(DOMAIN g) + 1) :
        n \notin DOMAIN g /\ \A m \in 1..(n - 1) : m \in DOMAIN g

\* device.createTexture / createBuffer / create...Pipeline / createSampler
Created(g, object) == [i \in DOMAIN g \cup {NewId(g)} |-> IF i \in DOMAIN g THEN g[i] ELSE object]

\* the objects created one after the other; st = [g, ids]
RECURSIVE CreatedEach(_, _)
CreatedEach(st, objects) ==
    IF objects = <<>> THEN st
    ELSE CreatedEach([g |-> Created(st.g, Head(objects)), ids |-> Append(st.ids, NewId(st.g))],
                     Tail(objects))

\* mutant: destroy() on a destroyed object brings it back
Destroyed_Toggle(g, ids) ==
    [i \in DOMAIN g |-> IF i \in ids THEN [g[i] EXCEPT !.destroyed = ~@] ELSE g[i]]

\* object.destroy(): no effect on an object already destroyed
Destroyed(g, ids) ==
    [i \in DOMAIN g |-> IF i \in ids THEN [g[i] EXCEPT !.destroyed = TRUE] ELSE g[i]]

ResourcesOf(bindGroup) == {bindGroup[i].resource : i \in 1..Len(bindGroup)}

\* the ids the renderer's fields, bind groups and texture array refer to
Referenced(h, texs) ==
    {h.outputTexture, h.verticesBuffer, h.uniformBuffer, h.dummyTexture,
     h.computePipeline, h.displayPipeline, h.sampler, h.textureSampler}
        \cup ResourcesOf(h.computeBindGroup) \cup ResourcesOf(h.displayBindGroup)
        \cup {texs[i] : i \in 1..Len(texs)}

Collected(g, h, texs) ==
    [i \in {k \in DOMAIN g : ~g[k].destroyed \/ k \in Referenced(h, texs)} |-> g[i]]

\* one step's record of what it did on the device
Command(op, id, x, y) == [op |-> op, id |-> id, x |-> x, y |-> y]

\* mutant: only the loaded textures get an entry
TextureEntries_LoadedOnly(h, texs, m) ==
    [i \in 1..(IF Len(texs) < m THEN Len(texs) ELSE m) |->
        [binding |-> 1 + i, resource |-> texs[i]]]

\* createComputeBindGroupEntries(): the uniform buffer, the output texture, one entry
\* per texture slot (the loaded texture or the dummy texture) and the texture sampler
TextureEntries(h, texs, m) ==
    [i \in 1..m |-> [binding |-> 1 + i,
                     resource |-> IF i <= Len(texs) THEN texs[i] ELSE h.dummyTexture]]

createComputeBindGroupEntries(h, texs, m) ==
    <<[binding |-> 0, resource |-> h.uniformBuffer],
      [binding |-> 1, resource |-> h.outputTexture]>>
        \o (IF m > 0
            THEN TextureEntries(h, texs, m) \o <<[binding |-> 2 + m, resource |-> h.textureSampler]>>
            ELSE <<>>)

\* the display bind group: the output texture and the display sampler
DisplayBindGroupEntries(h) ==
    <<[binding |-> 0, resource |-> h.outputTexture], [binding |-> 1, resource |-> h.sampler]>>

\* new ComputeRenderer(canvas, config, width, height): the packer is created and the
\* reusable buffer allocated, zeroed; no device yet
InitRenderer(schemas, slots, sizes) ==
    /\ schema \in schemas
    /\ layout = calculateStructLayout(schema)
    /\ bindings = Null
    /\ initialFill = 0
    /\ buffer = Filled(layout.totalSize, 0)
    /\ staleZeroed = FALSE
    /\ lastData = Null
    /\ lastContext = NoContext
    /\ threw = FALSE
    /\ device = FALSE
    /\ \E size \in sizes : canvasWidth = size[1] /\ canvasHeight = size[2]
    /\ uniformBuffer = <<>>
    /\ dispatched = <<0, 0>>
    /\ outputTexture = <<>>
    /\ lastCall = "none"
    /\ maxTextures \in slots
    /\ gpu = <<>>
    /\ held = NoObjects
    /\ textures = <<>>
    /\ textureCache = {}
    /\ phase = "none"
    /\ adapterRequests = 0
    /\ loads = <<>>
    /\ commands = <<>>
    /\ destroyCalled = FALSE

InitDraw == InitRenderer(DrawSchemas, {0}, CanvasSizes)

\* the objects createResources() creates, in order: the vertex buffer, the output
\* texture, the two pipelines, the uniform buffer, the display sampler and, with
\* texture support, the texture sampler and the 1x1 dummy texture
ResourceList(width, height, m) ==
    <<GpuObject("verticesBuffer", 0, 0), GpuObject("outputTexture", width, height),
      GpuObject("computePipeline", 0, 0), GpuObject("displayPipeline", 0, 0),
      GpuObject("uniformBuffer", 0, 0), GpuObject("sampler", 0, 0)>>
        \o (IF m > 0
            THEN <<GpuObject("textureSampler", 0, 0), GpuObject("dummyTexture", 1, 1)>>
            ELSE <<>>)

\* the renderer's fields once the objects with these ids are created
FieldsOf(ids, m) ==
    [outputTexture |-> ids[2], verticesBuffer |-> ids[1], uniformBuffer |-> ids[5],
     dummyTexture |-> IF m > 0 THEN ids[8] ELSE 0,
     computePipeline |-> ids[3], displayPipeline |-> ids[4], sampler |-> ids[6],
     textureSampler |-> IF m > 0 THEN ids[7] ELSE 0,
     renderPassDescriptor |-> TRUE,
     computeBindGroup |-> NoBindGroup, displayBindGroup |-> NoBindGroup]

WithBindGroups(h, texs, m) ==
    [h EXCEPT !.computeBindGroup = createComputeBindGroupEntries(h, texs, m),
              !.displayBindGroup = DisplayBindGroupEntries(h)]

CreateCommands(ids) == [i \in 1..Len(ids) |-> Command("create", ids[i], 0, 0)]

\* createResources(): runs to its end without suspending
createResources ==
    \E made \in {CreatedEach([g |-> gpu, ids |-> <<>>],
                             ResourceList(canvasWidth, canvasHeight, maxTextures))} :
        /\ gpu' = made.g
        /\ held' = WithBindGroups(FieldsOf(made.ids, maxTextures), textures, maxTextures)
        /\ commands' = CreateCommands(made.ids)
        /\ outputTexture' = <<canvasWidth, canvasHeight>>
        /\ uniformBuffer' = Filled(layout.totalSize, 0)

\* initialize(), up to its first await: navigator.gpu?.requestAdapter().  The caller
\* calls initialize() once per instance.
Initialize ==
    /\ phase = "none"
    /\ phase' = "adapter"
    /\ adapterRequests' = adapterRequests + 1
    /\ lastCall' = "initialize"
    /\ threw' = FALSE
    /\ commands' = <<>>
    /\ UNCHANGED <<schemaVars, buffer, initialFill, staleZeroed, lastData, lastContext,
                   device, canvasWidth, canvasHeight, uniformBuffer, dispatched,
                   outputTexture, maxTextures, gpu, held, textures, textureCache, loads,
                   destroyCalled>>

\* mutant: initialize() goes on without an adapter
AdapterThrows_Never(found) == FALSE

\* if (!adapter) throw new Error("Failed to get WebGPU adapter")
AdapterThrows(found) == ~found

\* the adapter request settles: without an adapter initialize() throws "Failed to get
\* WebGPU adapter"; with one it goes on to adapter.requestDevice()
AdapterSettles(found) ==
    /\ phase = "adapter"
    /\ phase' = IF AdapterThrows(found) THEN "noAdapter" ELSE "device"
    /\ threw' = AdapterThrows(found)
    /\ lastCall' = "adapter"
    /\ commands' = <<>>
    /\ UNCHANGED <<schemaVars, buffer, initialFill, staleZeroed, lastData, lastContext,
                   device, canvasWidth, canvasHeight, uniformBuffer, dispatched,
                   outputTexture, maxTextures, gpu, held, textures, textureCache,
                   adapterRequests, loads, destroyCalled>>

DeviceOutcomes == {"ok", "rejected", "noContext"}

\* the device request settles: rejected, initialize() throws and this.device stays
\* unset; otherwise this.device is set, and initialize() either throws "Failed to get
\* WebGPU context" or configures the context and runs createResources()
DeviceSettles(outcome) ==
    /\ phase = "device"
    /\ lastCall' = "device"
    /\ device' = (outcome # "rejected" \/ device)
    /\ phase' = IF outcome = "ok" THEN "done" ELSE "failed"
    /\ threw' = (outcome # "ok")
    /\ IF outcome = "ok"
       THEN createResources
       ELSE /\ commands' = <<>>
            /\ UNCHANGED <<gpu, held, outputTexture, uniformBuffer>>
    /\ UNCHANGED <<schemaVars, buffer, initialFill, staleZeroed, lastData, lastContext,
                   canvasWidth, canvasHeight, dispatched, maxTextures, textures,
                   textureCache, adapterRequests, loads, destroyCalled>>

\* resize(width, height): without a device only a warning.  Otherwise the dimensions
\* are replaced, the output texture destroyed and created anew at the new size, and
\* the two bind groups created anew; without pipelines (initialize() failed after the
\* device was set) getBindGroupLayout raises a TypeError before either bind group
\* mutant: the bind groups are left as they are
ResizedFields_KeepBindGroups(h, id, texs, m) == [h EXCEPT !.outputTexture = id]

ResizedFields(h, id, texs, m) ==
    IF h.computePipeline = 0 THEN [h EXCEPT !.outputTexture = id]
    ELSE WithBindGroups([h EXCEPT !.outputTexture = id], texs, m)

ResizeCommands(old, new, width, height) ==
    (IF old # 0 THEN <<Command("destroy", old, 0, 0)>> ELSE <<>>)
        \o <<Command("create", new, width, height)>>

Resize(width, height) ==
    /\ lastCall' = "resize"
    /\ IF ~device
       THEN /\ threw' = FALSE
            /\ commands' = <<>>
            /\ UNCHANGED <<canvasWidth, canvasHeight, outputTexture, gpu, held>>
       ELSE \E g \in {Destroyed(gpu, {held.outputTexture})} :
                /\ canvasWidth' = width
                /\ canvasHeight' = height
                /\ outputTexture' = <<width, height>>
                /\ held' = ResizedFields(held, NewId(g), textures, maxTextures)
                /\ gpu' = Collected(Created(g, GpuObject("outputTexture", width, height)),
                                    held', textures)
                /\ commands' = ResizeCommands(held.outputTexture, NewId(g), width, height)
                /\ threw' = (held.computePipeline = 0)
    /\ UNCHANGED <<schemaVars, buffer, initialFill, staleZeroed, lastData, lastContext,
                   device, uniformBuffer, dispatched, maxTextures, textures, textureCache,
                   phase, adapterRequests, loads, destroyCalled>>

\* mutant: the workgroup counts are rounded down
WorkgroupCounts_Floor(width, height) ==
    <<width \div workgroupSize[1], height \div workgroupSize[2]>>

\* Math.ceil(canvasWidth / workgroupSize[0]), Math.ceil(canvasHeight / workgroupSize[1])
WorkgroupCounts(width, height) ==
    <<CeilDiv(width, workgroupSize[1]), CeilDiv(height, workgroupSize[2])>>

\* the texture a bind group binds at binding, 0 if it has no such entry
BoundAt(bindGroup, binding) ==
    IF \E i \in 1..Len(bindGroup) : bindGroup[i].binding = binding
    THEN bindGroup[CHOOSE i \in 1..Len(bindGroup) : bindGroup[i].binding = binding].resource
    ELSE 0

\* mutant: each pass goes into a command buffer and a submission of its own
DrawCommands_TwoSubmissions(h, counts) ==
    <<Command("pack", 0, 0, 0),
      Command("writeBuffer", h.uniformBuffer, 0, 0),
      Command("dispatchWorkgroups", BoundAt(h.computeBindGroup, 1), counts[1], counts[2]),
      Command("submit", 0, 1, 1),
      Command("draw", BoundAt(h.displayBindGroup, 0), 6, 0),
      Command("submit", 0, 1, 1)>>

\* what draw() does after its guard, in order: the pack, queue.writeBuffer to the
\* uniform buffer, a compute pass with one dispatchWorkgroups on the compute bind
\* group, a render pass with one draw(6) on the display bind group, and one
\* queue.submit of one command buffer holding the two passes
DrawCommands(h, counts) ==
    <<Command("pack", 0, 0, 0),
      Command("writeBuffer", h.uniformBuffer, 0, 0),
      Command("dispatchWorkgroups", BoundAt(h.computeBindGroup, 1), counts[1], counts[2]),
      Command("draw", BoundAt(h.displayBindGroup, 0), 6, 0),
      Command("submit", 0, 1, 2)>>

\* draw(uniformData): throws without a device; otherwise packs with the current
\* canvas size as context, uploads the packed bytes and dispatches the workgroups
\* that cover the canvas.  Without a uniform buffer (initialize() failed after the
\* device was set) writeBuffer raises a TypeError after the pack; a write to a
\* destroyed buffer is a validation error on the device and writes nothing.
Draw(uniformData) ==
    /\ lastCall' = "draw"
    /\ IF ~device
       THEN /\ threw' = TRUE
            /\ commands' = <<>>
            /\ UNCHANGED <<buffer, initialFill, staleZeroed, lastData, lastContext,
                           uniformBuffer, dispatched>>
       ELSE \E r \in {pack(uniformData, buffer, PackContext(canvasWidth, canvasHeight), layout)} :
            /\ PackedResult(r, uniformData, PackContext(canvasWidth, canvasHeight),
                            r.ok /\ held.uniformBuffer = 0)
            /\ IF ~r.ok
               THEN /\ commands' = <<>>
                    /\ UNCHANGED <<uniformBuffer, dispatched>>
               ELSE IF held.uniformBuffer = 0
               THEN /\ commands' = <<Command("pack", 0, 0, 0)>>
                    /\ UNCHANGED <<uniformBuffer, dispatched>>
               ELSE /\ uniformBuffer' = IF gpu[held.uniformBuffer].destroyed
                                        THEN uniformBuffer ELSE r.buf
                    /\ dispatched' = WorkgroupCounts(canvasWidth, canvasHeight)
                    /\ commands' = DrawCommands(held, WorkgroupCounts(canvasWidth, canvasHeight))
    /\ UNCHANGED <<schemaVars, device, canvasWidth, canvasHeight, outputTexture,
                   maxTextures, gpu, held, textures, textureCache, phase, adapterRequests,
                   loads, destroyCalled>>

NextDraw ==
    \/ Initialize
    \/ \E found \in BOOLEAN : AdapterSettles(found)
    \/ \E outcome \in DeviceOutcomes : DeviceSettles(outcome)
    \/ \E size \in CanvasSizes : Resize(size[1], size[2])
    \/ \E uniformData \in DrawDataFor(schema) : Draw(uniformData)

SpecDraw == InitDraw /\ [][NextDraw]_vars

(***************************************************************************)
(* Specification SpecRenderer: one ComputeRenderer with texture support,   *)
(* its calls and the steps at which its pending calls resume, in any       *)
(* order: initialize(), resize(), draw(), loadTexture(), destroy().        *)
(***************************************************************************)
MaxLoads == 2       \* calls of loadTexture

\* config.maxTextures of the renderers constructed
TextureSlots == {0, 1, 2}

Urls == {"a.png", "b.png"}

\* device.limits.maxTextureDimension2D
maxTextureSize == 4

\* width and height of the image a URL decodes to, when it does
ImageAt(url) ==
    CASE url = "a.png" -> <<2, 2>>
      [] url = "b.png" -> <<8, 4>>
      [] url = "c.png" -> <<8, 1>>
      [] url = "d.png" -> <<49, 49>>
      [] url = "e.png" -> <<2, 8>>
      [] OTHER -> <<3, 7>>

RendererSchemas == {<<ReservedField>>}

\* the uniform data handed to draw: the reserved field comes from the canvas
RendererData == {Obj(<<>>)}

InitTextures == InitRenderer(RendererSchemas, TextureSlots, {<<8, 9>>})

\* a call of loadTexture: its URL, where it stands, the slot index it returned, and
\* the size of the bitmap it is resizing
LoadRecord(url, pc, index, width, height) ==
    [url |-> url, pc |-> pc, index |-> index, width |-> width, height |-> height]

\* textureCache.has(url) and textureCache.get(url); the cache is a set of <<url, index>>
CacheHas(cache, url) == \E e \in cache : e[1] = url

CacheGet(cache, url) == (CHOOSE e \in cache : e[1] = url)[2]

\* textureCache.set(url, index)
CacheSet(cache, url, index) == {e \in cache : e[1] # url} \cup {<<url, index>>}

\* mutant: the slot budget is not looked at
LoadGuard_NoLimit(url, m, dev, texs, cache) ==
    IF m = 0 \/ ~dev THEN "rejected"
    ELSE IF CacheHas(cache, url) THEN "cached"
    ELSE "fetch"

\* loadTexture up to its first await: the two guards that throw, the cache look-up
\* that returns, the slot budget that throws, and then the fetch
LoadGuard(url, m, dev, texs, cache) ==
    IF m = 0 \/ ~dev THEN "rejected"
    ELSE IF CacheHas(cache, url) THEN "cached"
    ELSE IF Len(texs) >= m THEN "rejected"
    ELSE "fetch"

LoadTexture_Begin(url, outcome) ==
    /\ loads' = Append(loads, LoadRecord(url, outcome,
                                         IF outcome = "cached" THEN CacheGet(textureCache, url)
                                         ELSE -1, 0, 0))
    /\ threw' = (outcome = "rejected")

LoadTexture(url) ==
    /\ Len(loads) < MaxLoads
    /\ lastCall' = "loadTexture"
    /\ LoadTexture_Begin(url, LoadGuard(url, maxTextures, device, textures, textureCache))
    /\ commands' = <<>>
    /\ UNCHANGED <<schemaVars, buffer, initialFill, staleZeroed, lastData, lastContext,
                   device, canvasWidth, canvasHeight, uniformBuffer, dispatched,
                   outputTexture, maxTextures, gpu, held, textures, textureCache, phase,
                   adapterRequests, destroyCalled>>

\* a pending call moves on or resolves null (the catch block), and nothing else changes
Moved(i, pc, width, height) ==
    /\ loads' = [loads EXCEPT ![i] = LoadRecord(@.url, pc, -1, width, height)]
    /\ commands' = <<>>
    /\ UNCHANGED <<gpu, held, textures, textureCache>>

\* mutant: the compute bind group is left as it is
updateComputeBindGroup_Never(h, dev, texs, m) == h

\* updateComputeBindGroup(): nothing without a device or a compute pipeline
updateComputeBindGroup(h, dev, texs, m) ==
    IF ~dev \/ h.computePipeline = 0 THEN h
    ELSE [h EXCEPT !.computeBindGroup = createComputeBindGroupEntries(h, texs, m)]

\* mutant: a failed load caches its URL with the slot it would have taken
Failed_Cached(i) ==
    /\ loads' = [loads EXCEPT ![i] = LoadRecord(@.url, "null", -1, 0, 0)]
    /\ textureCache' = CacheSet(textureCache, loads[i].url, Len(textures))
    /\ commands' = <<>>
    /\ UNCHANGED <<gpu, held, textures>>

\* the catch block: the error is logged and the call resolves null
Failed(i) == Moved(i, "null", 0, 0)

\* the end of loadTexture: the texture is created at the bitmap's size, the bitmap
\* copied into it, the texture pushed, the URL cached with the texture's index and
\* the compute bind group created anew
StoreTexture(i, width, height) ==
    /\ textures' = Append(textures, NewId(gpu))
    /\ textureCache' = CacheSet(textureCache, loads[i].url, Len(textures))
    /\ held' = updateComputeBindGroup(held, device, textures', maxTextures)
    /\ gpu' = Collected(Created(gpu, GpuObject("texture", width, height)), held', textures')
    /\ loads' = [loads EXCEPT ![i] = LoadRecord(@.url, "loaded", Len(textures), 0, 0)]
    /\ commands' = <<Command("create", NewId(gpu), 0, 0),
                     Command("copyExternalImageToTexture", NewId(gpu), width, height)>>

\* the fetch of a pending call settles, and with an OK response its body is read
FetchSettles(i, ok) ==
    /\ i \in 1..Len(loads)
    /\ loads[i].pc = "fetch"
    /\ lastCall' = "fetch"
    /\ threw' = FALSE
    /\ IF ok THEN Moved(i, "decode", 0, 0) ELSE Failed(i)
    /\ UNCHANGED <<schemaVars, buffer, initialFill, staleZeroed, lastData, lastContext,
                   device, canvasWidth, canvasHeight, uniformBuffer, dispatched,
                   outputTexture, maxTextures, phase, adapterRequests, destroyCalled>>

(***************************************************************************)
(* The numbers of the scaling are IEEE-754 binary64.  A positive one is    *)
(* [sig, e]: sig is twice its 53-bit significand, as Digits digits of base *)
(* Base (54 bits: the first a 1, the last, the rounding bit, a 0), and e   *)
(* is the exponent of the first bit: the value is sig * 2^(e - 53).        *)
(***************************************************************************)
Base == 512

Digits == 6

Float64(sig, e) == [sig |-> sig, e |-> e]

\* the next n digits of the quotient that has left r of the dividend, divided by b
RECURSIVE QuotientDigits(_, _, _)
QuotientDigits(r, b, n) ==
    IF n = 0 THEN <<>>
    ELSE <<(r * Base) \div b>> \o QuotientDigits((r * Base) % b, b, n - 1)

\* what those digits leave: zero when they are all of the quotient
RECURSIVE QuotientRest(_, _, _)
QuotientRest(r, b, n) == IF n = 0 THEN r ELSE QuotientRest((r * Base) % b, b, n - 1)

\* the digits of digits + 1
RECURSIVE Incremented(_)
Incremented(digits) ==
    IF digits = <<>> THEN <<1>>
    ELSE IF digits[Len(digits)] < Base - 1
    THEN SubSeq(digits, 1, Len(digits) - 1) \o <<digits[Len(digits)] + 1>>
    ELSE Incremented(SubSeq(digits, 1, Len(digits) - 1)) \o <<0>>

\* the digits of digits * d + carry, one digit more than digits has; d < Base
RECURSIVE TimesDigits(_, _, _)
TimesDigits(digits, d, carry) ==
    IF digits = <<>> THEN <<carry>>
    ELSE TimesDigits(SubSeq(digits, 1, Len(digits) - 1), d,
                     (digits[Len(digits)] * d + carry) \div Base)
            \o <<(digits[Len(digits)] * d + carry) % Base>>

\* the digits of (rest * Base^Len(digits) + digits) \div 2^k
RECURSIVE ShiftedRight(_, _, _)
ShiftedRight(digits, k, rest) ==
    IF digits = <<>> THEN <<>>
    ELSE <<(rest * Base + Head(digits)) \div Pow2(k)>>
            \o ShiftedRight(Tail(digits), k, (rest * Base + Head(digits)) % Pow2(k))

RECURSIVE IntOfDigits(_)
IntOfDigits(digits) ==
    IF digits = <<>> THEN 0
    ELSE Base * IntOfDigits(SubSeq(digits, 1, Len(digits) - 1)) + digits[Len(digits)]

\* a significand that the rounding carried to 2^54
Carried(digits, e) ==
    IF Len(digits) > Digits
    THEN Float64(<<Base \div 2>> \o SubSeq(digits, 3, Len(digits)), e + 1)
    ELSE Float64(digits, e)

\* the 54 bits (the first a 1, of exponent e; sticky: nonzero bits follow them)
\* rounded to the nearest binary64, ties to even
Rounded64(digits, sticky, e) ==
    IF digits[Digits] % 2 = 1 /\ (sticky \/ (digits[Digits] \div 2) % 2 = 1)
    THEN Carried(Incremented(digits), e)
    ELSE Float64([digits EXCEPT ![Digits] = @ - (@ % 2)], e)

\* the number of doublings that bring a up to b
RECURSIVE Doublings(_, _)
Doublings(a, b) == IF a >= b THEN 0 ELSE 1 + Doublings(2 * a, b)

\* a / b, b <= a < 2 * b, times 2^e
Quotient64(a, b, e) ==
    Rounded64(<<(a * (Base \div 2)) \div b>>
                  \o QuotientDigits((a * (Base \div 2)) % b, b, Digits - 1),
              QuotientRest((a * (Base \div 2)) % b, b, Digits - 1) # 0, e)

\* a / b of two positive integers
Divided64(a, b) ==
    IF a >= b
    THEN Quotient64(a, b * Pow2(FloorLog2(a \div b)), FloorLog2(a \div b))
    ELSE Quotient64(a * Pow2(Doublings(a, b)), b, -Doublings(a, b))

Less64(x, y) ==
    \/ x.e < y.e
    \/ /\ x.e = y.e
       /\ \E i \in 1..Digits :
             /\ x.sig[i] < y.sig[i]
             /\ \A j \in 1..(i - 1) : x.sig[j] = y.sig[j]

\* Math.min(x, y)
Min64(x, y) == IF Less64(y, x) THEN y ELSE x

\* the number of bits of n >= 0
BitLength(n) == IF n = 0 THEN 0 ELSE FloorLog2(n) + 1

\* the product whose digits are product, brought back to 54 bits
Product64(product, e) ==
    Rounded64(Tail(ShiftedRight(product, BitLength(product[1]), 0)),
              product[Len(product)] % Pow2(BitLength(product[1])) # 0,
              e + BitLength(product[1]))

\* d * x for a positive integer d < Base
Times64(d, x) == Product64(TimesDigits(x.sig, d, 0), x.e)

\* Math.floor(x)
Floor64(x) ==
    IF x.e < 0 THEN 0
    ELSE IntOfDigits(SubSeq(x.sig, 1, x.e \div 9 + 1)) \div Pow2(8 - (x.e % 9))

\* scale = Math.min(maxTextureSize / width, maxTextureSize / height)
Scale(width, height) ==
    Min64(Divided64(maxTextureSize, width), Divided64(maxTextureSize, height))

\* Math.floor(width * scale) and Math.floor(height * scale)
ScaledDimension(d, width, height) == Floor64(Times64(d, Scale(width, height)))

\* mutant: the bitmap is stored at the size it decoded to
Decoded_Unscaled(i, image) == StoreTexture(i, image[1], image[2])

\* createImageBitmap(blob) settles: an image larger than the device's limit goes on to
\* be resized, a smaller one is stored
Decoded(i, image) ==
    IF image[1] > maxTextureSize \/ image[2] > maxTextureSize
    THEN Moved(i, "resize", ScaledDimension(image[1], image[1], image[2]),
               ScaledDimension(image[2], image[1], image[2]))
    ELSE StoreTexture(i, image[1], image[2])

DecodeSettles(i, ok) ==
    /\ i \in 1..Len(loads)
    /\ loads[i].pc = "decode"
    /\ lastCall' = "decode"
    /\ threw' = FALSE
    /\ IF ok THEN Decoded(i, ImageAt(loads[i].url)) ELSE Failed(i)
    /\ UNCHANGED <<schemaVars, buffer, initialFill, staleZeroed, lastData, lastContext,
                   device, canvasWidth, canvasHeight, uniformBuffer, dispatched,
                   outputTexture, maxTextures, phase, adapterRequests, destroyCalled>>

\* createImageBitmap(imageBitmap, {resizeWidth, resizeHeight}) settles; it rejects
\* (InvalidStateError) a resizeWidth or resizeHeight of 0
ResizeSettles(i, ok) ==
    /\ i \in 1..Len(loads)
    /\ loads[i].pc = "resize"
    /\ lastCall' = "resizeImage"
    /\ threw' = FALSE
    /\ IF ok /\ loads[i].width > 0 /\ loads[i].height > 0
       THEN StoreTexture(i, loads[i].width, loads[i].height)
       ELSE Failed(i)
    /\ UNCHANGED <<schemaVars, buffer, initialFill, staleZeroed, lastData, lastContext,
                   device, canvasWidth, canvasHeight, uniformBuffer, dispatched,
                   outputTexture, maxTextures, phase, adapterRequests, destroyCalled>>

IdsOf(texs) == {texs[i] : i \in 1..Len(texs)}

\* mutant: the loaded textures are dropped but not destroyed
DestroyList_FieldsOnly(h, texs) ==
    SelectSeq(<<h.outputTexture, h.verticesBuffer, h.uniformBuffer, h.dummyTexture>>,
              LAMBDA id : id # 0)

\* the objects destroy() calls destroy() on: the output texture, the vertex buffer,
\* the uniform buffer, every loaded texture and the dummy texture, those that are set
DestroyList(h, texs) ==
    SelectSeq(<<h.outputTexture, h.verticesBuffer, h.uniformBuffer>> \o texs
                  \o <<h.dummyTexture>>,
              LAMBDA id : id # 0)

DestroyCommands(ids) == [i \in 1..Len(ids) |-> Command("destroy", ids[i], 0, 0)]

\* destroy(): the objects are destroyed, the texture array and the cache emptied; the
\* fields, this.device among them, and the bind groups stay as they are
Destroy ==
    /\ lastCall' = "destroy"
    /\ threw' = FALSE
    /\ destroyCalled' = TRUE
    /\ textures' = <<>>
    /\ textureCache' = {}
    /\ commands' = DestroyCommands(DestroyList(held, textures))
    /\ gpu' = Collected(Destroyed(gpu, IdsOf(DestroyList(held, textures))), held, <<>>)
    /\ UNCHANGED <<schemaVars, buffer, initialFill, staleZeroed, lastData, lastContext,
                   device, canvasWidth, canvasHeight, uniformBuffer, dispatched,
                   outputTexture, maxTextures, held, phase, adapterRequests, loads>>

\* isReady()
isReady == device

\* the state the lifecycle calls Ready: initialize() has run to its end, and destroy()
\* has not been called
Ready == phase = "done" /\ ~destroyCalled

\* an asynchronous call is in flight: initialize() or a loadTexture
InFlight ==
    \/ phase \in {"adapter", "device"}
    \/ \E i \in 1..Len(loads) : loads[i].pc \in {"fetch", "decode", "resize"}

NextTextures ==
    \/ Initialize
    \/ \E found \in BOOLEAN : AdapterSettles(found)
    \/ \E outcome \in DeviceOutcomes : DeviceSettles(outcome)
    \/ \E size \in CanvasSizes : Resize(size[1], size[2])
    \/ \E uniformData \in RendererData : Draw(uniformData)
    \/ \E url \in Urls : LoadTexture(url)
    \/ \E i \in 1..MaxLoads, ok \in BOOLEAN : FetchSettles(i, ok)
    \/ \E i \in 1..MaxLoads, ok \in BOOLEAN : DecodeSettles(i, ok)
    \/ \E i \in 1..MaxLoads, ok \in BOOLEAN : ResizeSettles(i, ok)
    \/ Destroy

SpecRenderer == InitTextures /\ [][NextTextures]_vars

(***************************************************************************)
(* Specification SpecCompile: defineUniformSchema on schemas with and      *)
(* without an array that names neither a struct nor a primitive, then,     *)
(* with the UniformSchema it returned, generateBindings(), new             *)
(* ComputeRenderer(...) and initialize().                                  *)
(***************************************************************************)
\* { array: { length: n } }
UntypedArrayT(n) == [kind |-> "array", prim |-> "", hasStruct |-> FALSE, struct |-> <<>>, length |-> n]

\* a type at the top level, in a nested struct, in an element struct, and two levels deep
Nestings(t) ==
    {t,
     StructT(Named(<<t>>, InnerNames)),
     ArrayOfStructT(Named(<<PrimT("f32"), t>>, InnerNames), 2),
     StructT(Named(<<StructT(Named(<<t>>, DeepNames))>>, InnerNames)),
     ArrayOfStructT(Named(<<StructT(Named(<<t>>, DeepNames))>>, InnerNames), 1),
     StructT(Named(<<ArrayOfStructT(Named(<<t>>, DeepNames), 1)>>, InnerNames))}

CompileTypes ==
    Nestings(UntypedArrayT(2)) \cup Nestings(ArrayOfPrimT("f32", 2)) \cup Nestings(PrimT("vec3f"))

CompileSchemas ==
    {Named(<<t>>, TopNames) : t \in CompileTypes}
        \cup {Named(<<PrimT("f32"), t>>, TopNames) : t \in CompileTypes}
        \cup {Named(<<t, PrimT("f32")>>, TopNames) : t \in CompileTypes}

InitCompile ==
    /\ schema \in CompileSchemas
    /\ layout = Null
    /\ bindings = Null
    /\ PackerIdle
    /\ RendererIdle

\* new ComputeRenderer(canvas, {uniformSchema, maxTextures: m}, width, height), with
\* the UniformSchema that defineUniformSchema returned: the packer is created and the
\* reusable buffer allocated
Construct(m, size) ==
    /\ layout # Null
    /\ layout.ok
    /\ lastCall = "none"
    /\ lastCall' = "new"
    /\ buffer' = Filled(layout.totalSize, 0)
    /\ canvasWidth' = size[1]
    /\ canvasHeight' = size[2]
    /\ maxTextures' = m
    /\ UNCHANGED <<schemaVars, initialFill, staleZeroed, lastData, lastContext, threw,
                   device, uniformBuffer, dispatched, outputTexture, gpu, held, textures,
                   textureCache, phase, adapterRequests, loads, commands, destroyCalled>>

Constructed == lastCall # "none"

NextCompile ==
    \/ DefineUniformSchema
    \/ GenerateBindings
    \/ \E m \in {0, 1}, size \in CanvasSizes : Construct(m, size)
    \/ Constructed /\ Initialize
    \/ \E found \in BOOLEAN : AdapterSettles(found)
    \/ \E outcome \in DeviceOutcomes : DeviceSettles(outcome)

SpecCompile == InitCompile /\ [][NextCompile]_vars

(***************************************************************************)
(* Specification SpecShape: packer.pack(data, buffer, context) on value    *)
(* trees that lack fields their schema declares and have a field it does   *)
(* not declare.                                                            *)
(***************************************************************************)
ShapeInner == Named(<<PrimT("f32")>>, InnerNames)

\* a field of every kind
ShapeTypes ==
    {PrimT("f32"), PrimT("u32"), PrimT("i32"), PrimT("vec3f"), StructT(ShapeInner),
     ArrayOfPrimT("f32", MaxPackLen), ArrayOfStructT(ShapeInner, MaxPackLen)}

ShapeSchemas ==
    {Named(<<t>>, TopNames) : t \in ShapeTypes}
        \cup {Named(<<PrimT("f32"), t>>, TopNames) : t \in ShapeTypes}
        \cup {Named(<<t, PrimT("u32")>>, TopNames) : t \in ShapeTypes}

\* the values a tree gives a field that it has: a struct with and without its own field
ShapeValues(type) ==
    IF type.kind = "prim" THEN {ValueList(type.prim)[1]}
    ELSE IF type.kind = "struct" THEN {StructValue(type.struct, 1), Obj(<<>>)}
    ELSE {Arr(<<ElementValue(type, 1)>>)}

\* the entry lists of the trees: every field is there or is not
RECURSIVE ShapeEntryLists(_, _)
ShapeEntryLists(sch, i) ==
    IF i > Len(sch) THEN {<<>>}
    ELSE {h \o rest : h \in {<<>>} \cup {<<Entry(sch[i].name, v)>> : v \in ShapeValues(sch[i].type)},
                      rest \in ShapeEntryLists(sch, i + 1)}

\* an entry the schemas do not declare
ExtraEntry == Entry("extra", Num(1))

ShapeDataFor(sch) ==
    {Obj(entries) : entries \in ShapeEntryLists(sch, 1)}
        \cup {Obj(<<ExtraEntry>> \o entries) : entries \in ShapeEntryLists(sch, 1)}

InitShape ==
    /\ schema \in ShapeSchemas
    /\ layout = calculateStructLayout(schema)
    /\ bindings = Null
    /\ initialFill \in {0, JunkByte}
    /\ buffer = Filled(layout.totalSize, initialFill)
    /\ staleZeroed = FALSE
    /\ lastData = Null
    /\ lastContext = NoContext
    /\ threw = FALSE
    /\ RendererIdle

NextShape == \E data \in ShapeDataFor(schema), context \in {PackContext(8, 9)} : Pack(data, context)

SpecShape == InitShape /\ [][NextShape]_vars

(***************************************************************************)
(* Specification SpecScale: initialize(), then loadTexture() of images     *)
(* within the device's texture size limit and beyond it.                   *)
(***************************************************************************)
ScaleUrls == {"a.png", "b.png", "c.png", "d.png", "e.png"}

InitScale == InitRenderer(RendererSchemas, {2}, {<<8, 9>>})

NextScale ==
    \/ Initialize
    \/ \E found \in BOOLEAN : AdapterSettles(found)
    \/ \E outcome \in DeviceOutcomes : DeviceSettles(outcome)
    \/ \E url \in ScaleUrls : LoadTexture(url)
    \/ \E i \in 1..MaxLoads, ok \in BOOLEAN : FetchSettles(i, ok)
    \/ \E i \in 1..MaxLoads, ok \in BOOLEAN : DecodeSettles(i, ok)
    \/ \E i \in 1..MaxLoads, ok \in BOOLEAN : ResizeSettles(i, ok)

SpecScale == InitScale /\ [][NextScale]_vars

(***************************************************************************)
(* The layout WGSL gives a struct declaration (WGSL specification,         *)
(* "Alignment and Size"): a member is placed at the previous member's end  *)
(* rounded up to the member's alignment; a struct's alignment is the       *)
(* largest member alignment and its size the end of the last member        *)
(* rounded up to the struct's alignment; an array's alignment is its       *)
(* element's and its stride the element size rounded up to the element     *)
(* alignment.  A type name with no declaration in the text has no layout.  *)
(***************************************************************************)
RoundUp(k, n) == CeilDiv(n, k) * k

WgslPrimLayout ==
    [f32   |-> [align |-> 4,  size |-> 4],
     u32   |-> [align |-> 4,  size |-> 4],
     i32   |-> [align |-> 4,  size |-> 4],
     vec2f |-> [align |-> 8,  size |-> 8],
     vec3f |-> [align |-> 16, size |-> 12],
     vec4f |-> [align |-> 16, size |-> 16]]

\* index of the first declaration of struct name in the text, 0 if there is none
RECURSIVE FindDecl(_, _, _)
FindDecl(decls, name, i) ==
    IF i > Len(decls) THEN 0
    ELSE IF decls[i].name = name THEN i
    ELSE FindDecl(decls, name, i + 1)

RECURSIVE WgslTypeLayout(_, _, _)
RECURSIVE WgslMembers(_, _, _, _, _)

\* members of a declaration from member i on; acc = [ok, end, align, members]
WgslMembers(decl, decls, fuel, i, acc) ==
    IF i > Len(decl.members) \/ ~acc.ok THEN acc
    ELSE
        LET m == decl.members[i]
            e == WgslTypeLayout(m.typeName, decls, fuel)
            stride == IF e.ok THEN RoundUp(e.align, e.size) ELSE 0
            size == IF m.isArray THEN m.length * stride ELSE e.size
            offset == IF e.ok THEN RoundUp(e.align, acc.end) ELSE 0
        IN  IF ~e.ok THEN [acc EXCEPT !.ok = FALSE]
            ELSE WgslMembers(decl, decls, fuel, i + 1,
                    [ok |-> TRUE,
                     end |-> offset + size,
                     align |-> Max(acc.align, e.align),
                     members |-> Append(acc.members,
                                    [name |-> m.name, offset |-> offset,
                                     size |-> size, stride |-> stride])])

WgslStructLayout(decl, decls, fuel) ==
    LET acc == WgslMembers(decl, decls, fuel, 1,
                   [ok |-> TRUE, end |-> 0, align |-> 1, members |-> <<>>])
    IN  [ok |-> acc.ok, align |-> acc.align,
         size |-> RoundUp(acc.align, acc.end), members |-> acc.members]

WgslTypeLayout(typeName, decls, fuel) ==
    IF typeName \in Prims
    THEN [ok |-> TRUE, align |-> WgslPrimLayout[typeName].align,
          size |-> WgslPrimLayout[typeName].size]
    ELSE LET i == FindDecl(decls, typeName, 1)
         IN  IF i = 0 \/ fuel = 0
             THEN [ok |-> FALSE, align |-> 1, size |-> 0]
             ELSE LET sl == WgslStructLayout(decls[i], decls, fuel - 1)
                  IN  [ok |-> sl.ok, align |-> sl.align, size |-> sl.size]

NestingFuel == 4

\* the layout the text gives struct name; ok = FALSE if the text declares no such
\* struct or refers to an undeclared one
TextLayout(decls, name) ==
    LET i == FindDecl(decls, name, 1)
    IN  IF i = 0 THEN [ok |-> FALSE, align |-> 1, size |-> 0, members |-> <<>>]
        ELSE WgslStructLayout(decls[i], decls, NestingFuel)

\* the text's struct name has, for every field of the schema's layout, a member of
\* that name at the field's offset, with the field's size (and stride), and so,
\* recursively, have the structs of its nested struct and array-of-struct fields
RECURSIVE TextMatchesLayout(_, _, _)
TextMatchesLayout(sch, name, decls) ==
    LET lay == calculateStructLayout(sch)
        tl == TextLayout(decls, name)
    IN  /\ tl.ok
        /\ \A i \in 1..Len(lay.fields) :
              LET f == lay.fields[i] IN
              /\ \E j \in 1..Len(tl.members) :
                    /\ tl.members[j].name = f.name
                    /\ tl.members[j].offset = f.offset
                    /\ tl.members[j].size = f.size
                    /\ f.isArray => tl.members[j].stride = f.arrayElementSize
              /\ f.type.kind = "struct" =>
                    TextMatchesLayout(f.type.struct, capitalize(f.name), decls)
              /\ (f.type.kind = "array" /\ f.type.hasStruct) =>
                    TextMatchesLayout(f.type.struct, capitalize(f.name) \o "Element", decls)

\* C1: the byte offset and size of every field implied by the generated WGSL struct
\* text under WGSL's layout rules equal the offset and size calculateStructLayout
\* assigns, and the size of struct Uniforms equals layout.totalSize.
C1_TextLayoutEqualsPackerLayout ==
    (bindings # Null /\ bindings.ok) =>
        /\ TextMatchesLayout(schema, "Uniforms", bindings.structs)
        /\ TextLayout(bindings.structs, "Uniforms").size = layout.totalSize


(***************************************************************************)
(* Claims on calculateStructLayout (specification SpecLayout)              *)
(***************************************************************************)
LayoutDone == layout # Null /\ layout.ok

LastType == schema[Len(schema)].type

\* C2: for every schema the layout has totalSize % 16 = 0 and
\* totalFloats = totalSize / 4.
C2_TotalSizeMultipleOf16 ==
    LayoutDone =>
        /\ layout.totalSize % 16 = 0
        /\ layout.totalFloats * 4 = layout.totalSize

\* a layout whose fields end off a 16-byte boundary, so that final padding was added
C2_Witness ==
    /\ LayoutDone
    /\ Len(schema) = 2
    /\ LastType = PrimT("vec2f")
    /\ schema[1].type.kind = "array"
    /\ layout.totalSize = layout.fields[2].offset + 16

\* the alignment the data model gives a field type
NaturalAlignment(fieldType) ==
    IF fieldType.kind = "prim" /\ fieldType.prim \in {"f32", "u32", "i32"} THEN 4
    ELSE IF fieldType.kind = "prim" /\ fieldType.prim = "vec2f" THEN 8
    ELSE 16

\* C3: every field's byte offset is a multiple of its natural alignment, its
\* floatOffset is offset / 4, and each field starts at or after the previous
\* field's offset + size + 4 * paddingAfter.
C3_FieldsAlignedAndDisjoint ==
    LayoutDone =>
        \A i \in 1..Len(layout.fields) :
            LET f == layout.fields[i] IN
            /\ f.offset % NaturalAlignment(f.type) = 0
            /\ f.floatOffset * 4 = f.offset
            /\ i > 1 =>
                  LET g == layout.fields[i - 1]
                  IN  f.offset >= g.offset + g.size + 4 * g.paddingAfter

\* a layout in which alignment padding was inserted before a field
C3_Witness ==
    /\ LayoutDone
    /\ Len(layout.fields) = 3
    /\ layout.fields[2].type.kind = "struct"
    /\ layout.fields[2].offset > layout.fields[1].offset + layout.fields[1].size
    /\ layout.fields[3].offset = layout.fields[2].offset + layout.fields[2].size

ScenarioA == Named(<<PrimT("f32"), PrimT("vec3f"), PrimT("f32")>>, TopNames)

\* C4: the field declared right after a non-array vec3f field has float offset
\* (vec3f field's float offset) + 4, whatever its type; schema {a:f32, b:vec3f, c:f32}
\* has float offsets 0, 4, 8 and totalFloats 12.
C4_FieldAfterVec3 ==
    LayoutDone =>
        /\ \A i \in 1..(Len(layout.fields) - 1) :
              layout.fields[i].type = PrimT("vec3f") =>
                  layout.fields[i + 1].floatOffset = layout.fields[i].floatOffset + 4
        /\ schema = ScenarioA =>
              /\ layout.fields[1].floatOffset = 0
              /\ layout.fields[2].floatOffset = 4
              /\ layout.fields[3].floatOffset = 8
              /\ layout.totalFloats = 12

\* the layout of Scenario A
C4_Witness ==
    /\ LayoutDone
    /\ schema = ScenarioA
    /\ layout.fields[3].floatOffset = 8

\* the size of one array element before rounding
ElementSize(fieldType) ==
    IF fieldType.hasStruct
    THEN calculateStructLayout(fieldType.struct).totalSize
    ELSE WGSL_TYPE_INFO[fieldType.prim].size

ScenarioB == Named(<<ArrayOfPrimT("f32", 3)>>, TopNames)

\* C5: an array field of declared length n has element stride = element size
\* rounded up to a multiple of 16, occupies n * stride bytes (n * stride / 4 floats)
\* from a 16-byte-aligned offset; elements of f32/u32/i32 arrays take 4 floats, and
\* {primitive: f32, length: 3} spans 12 floats.
C5_ArrayStride ==
    LayoutDone =>
        /\ \A i \in 1..Len(layout.fields) :
              LET f == layout.fields[i] IN
              f.type.kind = "array" =>
                  /\ f.isArray
                  /\ f.arrayLength = f.type.length
                  /\ f.arrayElementSize = RoundUp(16, ElementSize(f.type))
                  /\ f.arrayElementFloats * 4 = f.arrayElementSize
                  /\ f.size = f.type.length * f.arrayElementSize
                  /\ f.floatCount * 4 = f.size
                  /\ f.offset % 16 = 0
                  /\ (~f.type.hasStruct /\ f.type.prim \in {"f32", "u32", "i32"}) =>
                        f.arrayElementFloats = 4
        /\ schema = ScenarioB => layout.fields[1].floatCount = 12

\* the layout of Scenario B
C5_Witness ==
    /\ LayoutDone
    /\ schema = ScenarioB
    /\ layout.fields[1].arrayElementFloats = 4
    /\ layout.totalFloats = 12

(***************************************************************************)
(* Claims about the packer                                                 *)
(***************************************************************************)
LastPackDone == lastData # Null /\ ~threw

\* the buffer pack(lastData, _, lastContext) leaves when handed one filled with byte
FreshPack(byte) ==
    pack(lastData, Filled(layout.totalSize, byte), lastContext, layout).buf

\* C6: after pack returns, every float of the buffer holds the value the layout
\* assigns to it or zero, padding before a field included, whatever the buffer held
\* before the call: the buffer equals the one packed from an all-zero buffer.
C6_EveryFloatDefined == LastPackDone => buffer = FreshPack(0)

\* C7: a second pack with the same (values, context) on the same buffer leaves every
\* byte as the first call left it, and what pack writes does not depend on what the
\* buffer held: packed onto an all-zero and onto an all-junk buffer, every byte is
\* either written with the same value in both, which is also the value the buffer
\* holds now, or left as it was in both.
C7_PackIdempotent ==
    LastPackDone =>
        /\ pack(lastData, buffer, lastContext, layout).buf = buffer
        /\ pack(lastData, buffer, lastContext, layout).ok
        /\ \E z \in {FreshPack(0)}, j \in {FreshPack(JunkByte)} :
              \A i \in 1..Len(buffer) :
                  \/ z[i] = j[i] /\ buffer[i] = z[i]
                  \/ z[i] = 0 /\ j[i] = JunkByte

\* a pack with integer and synthesised fields on a buffer that held junk
C7_Witness ==
    /\ LastPackDone
    /\ initialFill = JunkByte
    /\ schema = <<ReservedField>> \o Named(<<PrimT("i32")>>, TopNames)
    /\ lastContext = PackContext(9, 8)
    /\ buffer # Filled(layout.totalSize, JunkByte)

\* the value a tree holds under a name
TreeValue(tree, name) ==
    IF \E i \in 1..Len(tree.items) : tree.items[i].name = name
    THEN (CHOOSE e \in {tree.items[i] : i \in 1..Len(tree.items)} : e.name = name).value
    ELSE Undefined

\* number of elements of an array field that are supplied by the last value tree
SuppliedBy(tree, field) ==
    LET value == TreeValue(tree, field.name)
    IN  IF value.t # "arr" THEN 0
        ELSE IF Len(value.items) < field.arrayLength THEN Len(value.items)
        ELSE field.arrayLength

\* the value tree with every array cut to the declared length of its field
CutToLength(tree) ==
    Obj([i \in 1..Len(tree.items) |->
            LET e == tree.items[i]
                long == \E k \in 1..Len(layout.fields) :
                            /\ layout.fields[k].name = e.name
                            /\ layout.fields[k].isArray
                            /\ e.value.t = "arr"
                            /\ Len(e.value.items) > layout.fields[k].arrayLength
            IN  IF long
                THEN Entry(e.name, Arr(SubSeq(e.value.items, 1, MaxPackLen)))
                ELSE e])

\* C8: for an array field of declared length n, packing k < n elements (or no array)
\* leaves every float of elements k..n-1 zero even if an earlier pack wrote them, and
\* elements at index >= n are ignored: the tree cut to the declared lengths packs to
\* the same bytes, on a zeroed as on a junk-filled buffer.
C8_UnsuppliedElementsZero ==
    LastPackDone =>
        /\ \A i \in 1..Len(layout.fields) :
              layout.fields[i].isArray =>
                  AllZero(ElementBytes(buffer, layout.fields[i],
                                       SuppliedBy(lastData, layout.fields[i])))
        /\ \A byte \in {0, JunkByte} :
              FreshPack(byte) = pack(CutToLength(lastData), Filled(layout.totalSize, byte),
                                     lastContext, layout).buf

\* a short array packed over elements an earlier pack on a zeroed buffer had written
C8_Witness ==
    /\ LastPackDone
    /\ initialFill = 0
    /\ staleZeroed
    /\ \E i \in 1..Len(layout.fields) :
          /\ layout.fields[i].isArray
          /\ SuppliedBy(lastData, layout.fields[i]) < layout.fields[i].arrayLength
          /\ SuppliedBy(lastData, layout.fields[i]) > 0

\* the integer four little-endian bytes encode: unsigned for u32, two's complement
\* for i32
DecodeInt(prim, b) ==
    LET lo == b[1] + 256 * b[2]
        hi == b[3] + 256 * b[4]
    IN  IF prim = "u32" \/ b[4] < 128 THEN NumLimbs(FALSE, hi, lo)
        ELSE IF lo = 0 THEN NumLimbs(TRUE, 65536 - hi, 0)
        ELSE NumLimbs(TRUE, 65535 - hi, 65536 - lo)

BytesAt(byteOffset) == SubSeq(buffer, byteOffset + 1, byteOffset + 4)

IsInt(type) == ~type.hasStruct /\ type.prim \in {"i32", "u32"}

\* the integer scalars of a struct at byte offset base decode to the tree's values
IntScalarsExact(fields, tree, base) ==
    \A i \in 1..Len(fields) :
        (fields[i].type.kind = "prim" /\ IsInt(fields[i].type)
            /\ fields[i].name # ReservedName) =>
              DecodeInt(fields[i].type.prim, BytesAt(base + fields[i].offset))
                  = TreeValue(tree, fields[i].name)

\* C9: an i32 or u32 value packed into a scalar field or a primitive array element
\* is stored as its exact little-endian two's-complement / unsigned encoding at the
\* field's byte offset, so decoding the bytes returns the value, also above 2^24.
C9_IntegersBitExact ==
    LastPackDone =>
        /\ IntScalarsExact(layout.fields, lastData, 0)
        /\ \A i \in 1..Len(layout.fields) :
              LET f == layout.fields[i] IN
              /\ f.type.kind = "struct" =>
                    IntScalarsExact(calculateStructLayout(f.type.struct).fields,
                                    TreeValue(lastData, f.name), f.offset)
              /\ (f.isArray /\ IsInt(f.type)) =>
                    \A k \in 0..(SuppliedBy(lastData, f) - 1) :
                        DecodeInt(f.type.prim, BytesAt(f.offset + k * f.arrayElementSize))
                            = TreeValue(lastData, f.name).items[k + 1]

\* 2^24 + 1, which no float32 holds, packed into a scalar after an array holding -2^31
C9_Witness ==
    /\ LastPackDone
    /\ \E i \in 1..Len(layout.fields) :
          LET f == layout.fields[i] IN
          /\ f.type = PrimT("u32")
          /\ TreeValue(lastData, f.name) = Num(16777217)
          /\ BytesAt(f.offset) = <<1, 0, 0, 1>>
    /\ \E i \in 1..Len(layout.fields) :
          LET f == layout.fields[i] IN
          /\ f.type = ArrayOfPrimT("i32", MaxPackLen)
          /\ SuppliedBy(lastData, f) = MaxPackLen
          /\ TreeValue(lastData, f.name).items[2] = NumLimbs(TRUE, 32768, 0)
          /\ BytesAt(f.offset + f.arrayElementSize) = <<0, 0, 0, 128>>

(***************************************************************************)
(* Claims about the reserved field and the renderer's pack context         *)
(***************************************************************************)
\* the float32 words of a context's width and height
ContextWords(context) ==
    <<FloatWordOf(Num(context.canvasWidth)), FloatWordOf(Num(context.canvasHeight))>>

\* every primitive field named screenResolution of a struct at byte offset base holds
\* the context's width, and its height where the field has a second float
ReservedFromContext(fields, base) ==
    \A i \in 1..Len(fields) :
        (fields[i].name = ReservedName /\ fields[i].type.kind = "prim") =>
            \A k \in 0..1 :
                k < WGSL_TYPE_INFO[fields[i].type.prim].floatCount =>
                    BytesAt(base + fields[i].offset + 4 * k) = ContextWords(lastContext)[k + 1]

\* every other float field of a struct at byte offset base holds the value the tree
\* has under the field's name
FloatsFromTree(fields, tree, base) ==
    \A i \in 1..Len(fields) :
        LET f == fields[i]
            value == TreeValue(tree, f.name)
        IN  (f.name # ReservedName /\ f.type.kind = "prim" /\ ~IsInt(f.type)) =>
                \A k \in 0..(WGSL_TYPE_INFO[f.type.prim].floatCount - 1) :
                    BytesAt(base + f.offset + 4 * k)
                        = FloatWordOf(IF f.type.prim = "f32" THEN value ELSE value.items[k + 1])

\* C10: the field named screenResolution is packed as (context.canvasWidth,
\* context.canvasHeight) and a value the tree has under that name is ignored; every
\* other field is taken from the tree by name; and the context ComputeRenderer.draw
\* packs with is the renderer's width and height at the time of the call.
C10_ReservedFieldFromContext ==
    LastPackDone =>
        /\ ReservedFromContext(layout.fields, 0)
        /\ FloatsFromTree(layout.fields, lastData, 0)
        /\ IntScalarsExact(layout.fields, lastData, 0)
        /\ \A i \in 1..Len(layout.fields) :
              LET f == layout.fields[i] IN
              (f.type.kind = "struct" /\ f.name # ReservedName) =>
                  LET inner == calculateStructLayout(f.type.struct).fields IN
                  /\ ReservedFromContext(inner, f.offset)
                  /\ FloatsFromTree(inner, TreeValue(lastData, f.name), f.offset)
                  /\ IntScalarsExact(inner, TreeValue(lastData, f.name), f.offset)
        /\ lastCall = "draw" => lastContext = PackContext(canvasWidth, canvasHeight)

\* a draw after a resize to 9 x 8, of a tree that has its own screenResolution entry
\* after the entry of the other field
C10_Witness ==
    /\ LastPackDone
    /\ lastCall = "draw"
    /\ schema = <<ReservedField>> \o Named(<<PrimT("vec3f")>>, TopNames)
    /\ canvasWidth = 9
    /\ canvasHeight = 8
    /\ outputTexture = <<9, 8>>
    /\ TreeValue(lastData, ReservedName) = Arr(<<Num(1), Num(-2)>>)
    /\ lastData.items[1].name = "a"
    /\ SubSeq(uniformBuffer, 1, 8) = <<0, 0, 16, 65, 0, 0, 0, 65>>


(***************************************************************************)
(* Claims about the renderer's calls (SpecRenderer)                        *)
(***************************************************************************)
Ops(cs) == [i \in 1..Len(cs) |-> cs[i].op]

\* C11: every draw() on a ready renderer does, in this order and once each: the pack
\* into the host buffer, the upload of that buffer to the uniform buffer, one compute
\* dispatch of ceil(width / workgroupX) x ceil(height / workgroupY) workgroups, one
\* render pass that draws the 6 vertices of the quad, and one queue submission of one
\* command buffer that holds the two passes.
C11_DrawSteps ==
    (lastCall = "draw" /\ Ready) =>
        /\ ~threw
        /\ Ops(commands) = <<"pack", "writeBuffer", "dispatchWorkgroups", "draw", "submit">>
        /\ lastContext = PackContext(canvasWidth, canvasHeight)
        /\ commands[2].id = held.uniformBuffer
        /\ uniformBuffer = buffer
        /\ commands[3].x = CeilDiv(canvasWidth, workgroupSize[1])
        /\ commands[3].y = CeilDiv(canvasHeight, workgroupSize[2])
        /\ commands[4].x = 6
        /\ commands[5].x = 1
        /\ commands[5].y = 2

C11_Witness ==
    /\ lastCall = "draw"
    /\ Ready
    /\ Len(textures) = 1
    /\ canvasWidth = 9
    /\ Len(commands) = 5
    /\ commands[3].x = 2

\* C12: on a ready renderer resize(w2, h2) stores w2 and h2, nothing but a resize
\* changes the stored dimensions, and every draw() dispatches ceil(w / wgX) x
\* ceil(h / wgY) workgroups for the stored dimensions, against the live output texture
\* the renderer holds, which has the stored dimensions.
C12_DrawAfterResize ==
    /\ [][(lastCall' = "resize" /\ Ready) =>
              /\ canvasWidth' = commands'[Len(commands')].x
              /\ canvasHeight' = commands'[Len(commands')].y]_vars
    /\ [][lastCall' # "resize" => UNCHANGED <<canvasWidth, canvasHeight>>]_vars
    /\ []((lastCall = "draw" /\ Ready) =>
              /\ Len(commands) = 5
              /\ commands[3].op = "dispatchWorkgroups"
              /\ commands[3].x * workgroupSize[1] >= canvasWidth
              /\ (commands[3].x - 1) * workgroupSize[1] < canvasWidth
              /\ commands[3].y * workgroupSize[2] >= canvasHeight
              /\ (commands[3].y - 1) * workgroupSize[2] < canvasHeight
              /\ commands[3].id = held.outputTexture
              /\ commands[3].id \in DOMAIN gpu
              /\ gpu[commands[3].id] = GpuObject("outputTexture", canvasWidth, canvasHeight))

C12_Witness ==
    /\ lastCall = "draw"
    /\ Ready
    /\ <<canvasWidth, canvasHeight>> = <<9, 8>>
    /\ dispatched = <<2, 1>>
    /\ gpu[held.outputTexture].width = 9
    /\ \E i \in 1..Len(loads) : loads[i].pc = "loaded"

\* the fields resize leaves alone
KeptFields ==
    {"verticesBuffer", "uniformBuffer", "dummyTexture", "computePipeline", "displayPipeline",
     "sampler", "textureSampler", "renderPassDescriptor"}

\* C13: resize(w, h) on a ready renderer destroys the old output texture and replaces
\* the output texture, the stored width and height, and in the two bind groups the
\* entry of the output texture; the pipelines, the uniform buffer, the vertex buffer,
\* the samplers, the dummy texture, the other bind group entries, the texture array,
\* the URL cache and the host buffer are what they were.
C13_ResizeFrame ==
    [][(lastCall' = "resize" /\ Ready) =>
           /\ commands'[1] = Command("destroy", held.outputTexture, 0, 0)
           /\ held.outputTexture \in DOMAIN gpu' => gpu'[held.outputTexture].destroyed
           /\ held'.outputTexture # held.outputTexture
           /\ held'.outputTexture \in DOMAIN gpu'
           /\ gpu'[held'.outputTexture] = GpuObject("outputTexture", canvasWidth', canvasHeight')
           /\ \A k \in KeptFields : held'[k] = held[k]
           /\ Len(held'.computeBindGroup) = Len(held.computeBindGroup)
           /\ \A i \in 1..Len(held.computeBindGroup) :
                  held'.computeBindGroup[i] =
                      IF held.computeBindGroup[i].binding = 1
                      THEN [binding |-> 1, resource |-> held'.outputTexture]
                      ELSE held.computeBindGroup[i]
           /\ held'.displayBindGroup =
                  <<[binding |-> 0, resource |-> held'.outputTexture],
                    held.displayBindGroup[2]>>
           /\ \A id \in DOMAIN gpu \ {held.outputTexture} :
                  id \in DOMAIN gpu' /\ gpu'[id] = gpu[id]
           /\ UNCHANGED <<textures, textureCache, buffer, uniformBuffer, schemaVars>>]_vars

C13_Witness ==
    /\ lastCall = "resize"
    /\ Ready
    /\ Len(textures) = 1
    /\ canvasWidth = 9
    /\ Len(commands) = 2
    /\ lastData # Null

\* a call that issued a fetch, and a call that returned a slot
Fetched(call) == call.pc \notin {"rejected", "cached"}

Returned(call) == call.pc \in {"loaded", "cached"}

\* C14: two loadTexture calls with the same URL and no destroy() between them return
\* the same slot index, and at most one of them issues a fetch, in every interleaving.
C14_SameUrlSameSlot ==
    ~destroyCalled =>
        \A i, j \in 1..Len(loads) :
            (i < j /\ loads[i].url = loads[j].url /\ Returned(loads[i]) /\ Returned(loads[j])) =>
                /\ loads[i].index = loads[j].index
                /\ ~(Fetched(loads[i]) /\ Fetched(loads[j]))

\* the call a loadTexture step has added
NewCall == loads'[Len(loads')]

RejectedUnchanged ==
    /\ threw'
    /\ NewCall.pc = "rejected"
    /\ UNCHANGED <<textures, textureCache, held, gpu>>

\* C15 as stated: a loadTexture call made before the device is acquired, or made when
\* the number of loaded textures equals the slot budget, fails with an error before
\* any fetch and leaves the texture array, the URL cache and the compute bind group
\* unchanged.
C15_FullBudgetFails ==
    [][(lastCall' = "loadTexture" /\ (~device \/ Len(textures) = maxTextures))
           => RejectedUnchanged]_vars

\* C15, amended: a loadTexture call made before the device is acquired, or made when
\* the number of loaded textures equals the slot budget with a URL that is not in the
\* cache, fails with an error before any fetch and leaves the texture array, the URL
\* cache and the compute bind group unchanged; a call with a cached URL on a renderer
\* with a device returns the cached slot, whatever the number of loaded textures.
C15_GuardedLoadFails ==
    /\ [][(/\ lastCall' = "loadTexture"
           /\ \/ ~device
              \/ Len(textures) = maxTextures /\ ~CacheHas(textureCache, NewCall.url))
              => RejectedUnchanged]_vars
    /\ [][(lastCall' = "loadTexture" /\ device /\ CacheHas(textureCache, NewCall.url))
              => /\ ~threw'
                 /\ Returned(NewCall)
                 /\ textures[NewCall.index + 1] \in DOMAIN gpu
                 /\ UNCHANGED <<textures, textureCache, held, gpu>>]_vars

C15_Witness ==
    /\ lastCall = "loadTexture"
    /\ threw
    /\ device
    /\ Len(textures) = maxTextures
    /\ loads[Len(loads)].pc = "rejected"
    /\ loads[1].pc = "loaded"
    /\ loads[1].url # loads[2].url

\* C16: a step at which a loadTexture call issues its fetch, moves on or resolves null
\* raises no error and leaves the texture array, the URL cache, the bind groups, every
\* GPU object, the output texture and the dimensions unchanged, so that a call that
\* resolves null has changed none of them; and a loadTexture for a URL of which a call
\* has failed and none has stored a texture, on a renderer with a free slot, issues a
\* fetch.
C16_FailedLoadChangesNothing ==
    /\ [][\A i \in 1..Len(loads') :
              (/\ i > Len(loads) \/ loads'[i] # loads[i]
               /\ loads'[i].pc \in {"fetch", "decode", "resize", "null"})
                  => /\ ~threw'
                     /\ UNCHANGED <<textures, textureCache, held, gpu, outputTexture,
                                    canvasWidth, canvasHeight>>]_vars
    /\ [][(/\ lastCall' = "loadTexture"
           /\ device
           /\ Len(textures) < maxTextures
           /\ \E i \in 1..Len(loads) : loads[i].url = NewCall.url /\ loads[i].pc = "null"
           /\ \A i \in 1..Len(loads) : loads[i].url = NewCall.url => loads[i].pc # "loaded")
              => NewCall.pc = "fetch"]_vars

C16_Witness ==
    /\ Len(loads) = 2
    /\ loads[1].url = loads[2].url
    /\ loads[1].pc = "null"
    /\ loads[2].pc = "loaded"
    /\ loads[2].index = 0
    /\ Ready

\* the kinds of object that have a destroy(): the buffers and the textures
Destroyable == {"outputTexture", "verticesBuffer", "uniformBuffer", "dummyTexture", "texture"}

\* C17: when destroy() returns with no asynchronous call in flight, every buffer and
\* texture of the heap (the output texture, the vertex buffer, the uniform buffer, the
\* dummy texture, every loaded texture, the output textures of earlier resizes) is
\* destroyed, and the texture array and the URL cache are empty.
C17_DestroyReleasesAll ==
    (lastCall = "destroy" /\ ~InFlight) =>
        /\ \A id \in DOMAIN gpu : gpu[id].kind \in Destroyable => gpu[id].destroyed
        /\ textures = <<>>
        /\ textureCache = {}

C17_Witness ==
    /\ lastCall = "destroy"
    /\ ~InFlight
    /\ phase = "done"
    /\ \E id \in DOMAIN gpu : gpu[id].kind = "texture" /\ gpu[id].destroyed
    /\ gpu[held.outputTexture] = [GpuObject("outputTexture", 9, 8) EXCEPT !.destroyed = TRUE]
    /\ gpu[held.dummyTexture].destroyed
    /\ Len(commands) = 5

\* C18: a destroy() that follows a destroy() raises no error and leaves every part of
\* the renderer's state as the first call left it, whether the renderer was never
\* initialized, ready or destroyed before.
C18_DestroyIdempotent ==
    [][(lastCall = "destroy" /\ lastCall' = "destroy") =>
           /\ ~threw'
           /\ UNCHANGED <<schemaVars, buffer, initialFill, staleZeroed, lastData, lastContext,
                          device, canvasWidth, canvasHeight, uniformBuffer, dispatched,
                          outputTexture, maxTextures, gpu, held, textures, textureCache,
                          phase, adapterRequests, loads, destroyCalled>>]_vars

\* a destroy() on a renderer whose loaded texture an earlier destroy() has destroyed
C18_Witness ==
    /\ lastCall = "destroy"
    /\ phase = "done"
    /\ \E id \in DOMAIN gpu : gpu[id].kind = "texture" /\ gpu[id].destroyed
    /\ Len(commands) = 4
    /\ \A i \in 1..Len(commands) : gpu[commands[i].id].kind # "texture"

\* C19: after destroy() has been called every draw() and every resize() is rejected:
\* it submits no GPU command, creates no GPU resource and uses no destroyed object.
C19_DestroyedIsTerminal ==
    (destroyCalled /\ lastCall \in {"draw", "resize"}) => commands = <<>>

\* C20: without an adapter initialize() throws at the adapter request, the renderer
\* stays in that state for good with the single adapter request it made, no GPU object
\* and no device, isReady() is false, and a draw() throws and does nothing.
C20_NoAdapterFails ==
    /\ [][AdapterSettles(FALSE) => (threw' /\ phase' = "noAdapter")]_vars
    /\ [][phase = "noAdapter" => phase' = "noAdapter"]_vars
    /\ [](phase = "noAdapter" =>
              /\ adapterRequests = 1
              /\ ~isReady
              /\ gpu = <<>>
              /\ held = NoObjects
              /\ lastCall = "adapter" => threw
              /\ lastCall = "draw" => (threw /\ commands = <<>>))

C20_Witness ==
    /\ phase = "noAdapter"
    /\ lastCall = "draw"
    /\ threw
    /\ destroyCalled
    /\ Len(loads) = 1

(***************************************************************************)
(* Claims on schema compilation (SpecCompile)                              *)
(***************************************************************************)
\* the schema has, at some depth, an array with neither a struct nor a primitive
RECURSIVE HasUntypedArray(_)
HasUntypedArray(sch) ==
    \E i \in 1..Len(sch) :
        \/ sch[i].type.kind = "array" /\ ~sch[i].type.hasStruct /\ sch[i].type.prim = ""
        \/ sch[i].type.hasStruct /\ HasUntypedArray(sch[i].type.struct)

\* C21: defineUniformSchema on a schema with, at any depth, an array field that names
\* neither a struct nor a primitive throws; no UniformSchema is returned, so that no
\* bindings are generated, no packer and no renderer exist and no GPU object is
\* created.
C21_UntypedArrayFailsCompile ==
    (HasUntypedArray(schema) /\ layout # Null) =>
        /\ ~layout.ok
        /\ bindings = Null
        /\ buffer = <<>>
        /\ ~Constructed
        /\ phase = "none"
        /\ ~device
        /\ gpu = <<>>
        /\ held = NoObjects

C21_Witness ==
    /\ layout # Null
    /\ ~layout.ok
    /\ Len(schema) = 2
    /\ schema[1].type = PrimT("f32")
    /\ schema[2].type =
           ArrayOfStructT(Named(<<StructT(Named(<<UntypedArrayT(2)>>, DeepNames))>>, InnerNames), 1)

(***************************************************************************)
(* Claims about the renderer's resources (SpecRenderer)                    *)
(***************************************************************************)
\* the number of entries of a bind group at a binding
EntriesAt(bindGroup, binding) ==
    Cardinality({i \in 1..Len(bindGroup) : bindGroup[i].binding = binding})

\* C22: on a ready renderer with maxTextures = m > 0 the compute bind group has exactly
\* one entry for each binding 0..m+2 and no other: at 0 the uniform buffer, at 1 the
\* output texture, at 2+i the i-th loaded texture if there is one and the 1x1 dummy
\* texture otherwise, at 2+m the texture sampler; with m = 0 it has exactly the
\* entries of bindings 0 and 1.
C22_ComputeBindGroupEntries ==
    Ready =>
        /\ Len(held.computeBindGroup) = IF maxTextures > 0 THEN maxTextures + 3 ELSE 2
        /\ \A b \in 0..(Len(held.computeBindGroup) - 1) :
               EntriesAt(held.computeBindGroup, b) = 1
        /\ BoundAt(held.computeBindGroup, 0) = held.uniformBuffer
        /\ gpu[held.uniformBuffer] = GpuObject("uniformBuffer", 0, 0)
        /\ BoundAt(held.computeBindGroup, 1) = held.outputTexture
        /\ gpu[held.outputTexture].kind = "outputTexture"
        /\ maxTextures > 0 =>
               /\ \A i \in 0..(maxTextures - 1) :
                      BoundAt(held.computeBindGroup, 2 + i) =
                          IF i < Len(textures) THEN textures[i + 1] ELSE held.dummyTexture
               /\ gpu[held.dummyTexture] = GpuObject("dummyTexture", 1, 1)
               /\ \A i \in 1..Len(textures) : gpu[textures[i]].kind = "texture"
               /\ BoundAt(held.computeBindGroup, 2 + maxTextures) = held.textureSampler
               /\ gpu[held.textureSampler].kind = "textureSampler"

C22_Witness ==
    /\ Ready
    /\ maxTextures = 2
    /\ Len(textures) = 1
    /\ lastCall = "resize"
    /\ BoundAt(held.computeBindGroup, 2) = textures[1]
    /\ BoundAt(held.computeBindGroup, 3) = held.dummyTexture

\* the steps of a loadTexture call
LoadSteps == {"loadTexture", "fetch", "decode", "resizeImage"}

\* the fields neither resize nor loadTexture writes
FixedFields ==
    {"verticesBuffer", "uniformBuffer", "dummyTexture", "computePipeline", "displayPipeline",
     "sampler", "textureSampler", "renderPassDescriptor"}

\* the compute bind group binds the output texture and the loaded textures of now
ComputeBindGroupCurrent ==
    /\ BoundAt(held.computeBindGroup, 1) = held.outputTexture
    /\ \A i \in 1..Len(textures) :
           i <= maxTextures => BoundAt(held.computeBindGroup, 1 + i) = textures[i]

Lacks(tree, field) == Lookup(tree.items, field.name, 1) = Undefined

FieldBytes(buf, field) == SubSeq(buf, field.offset + 1, field.offset + field.size)

\* C24: a pack of a value tree that lacks a field the schema declares, of whatever
\* kind, raises no error and leaves every byte of that field's span zero.
C24_MissingFieldsZero ==
    lastData # Null =>
        /\ ~threw
        /\ \A i \in 1..Len(layout.fields) :
               Lacks(lastData, layout.fields[i]) => AllZero(FieldBytes(buffer, layout.fields[i]))

(***************************************************************************)
(* Claims on the struct declarations of the generated text (SpecLayout)    *)
(***************************************************************************)
\* number of declarations of struct name in the text
DeclCount(decls, name) == Cardinality({i \in 1..Len(decls) : decls[i].name = name})

\* every struct type a member refers to is declared once, before the declaration
\* that uses it
RefsDeclared(decls) ==
    \A i \in 1..Len(decls) : \A j \in 1..Len(decls[i].members) :
        decls[i].members[j].typeName \notin Prims =>
            /\ DeclCount(decls, decls[i].members[j].typeName) = 1
            /\ FindDecl(decls, decls[i].members[j].typeName, 1) < i

HasMember(decl, name) == \E j \in 1..Len(decl.members) : decl.members[j].name = name

\* struct name is declared and has a member for every field of sch, and so have,
\* recursively, the structs of the nested struct and array-of-struct fields of sch
RECURSIVE FieldsAreMembers(_, _, _)
FieldsAreMembers(sch, name, decls) ==
    /\ FindDecl(decls, name, 1) # 0
    /\ \A i \in 1..Len(sch) :
          /\ HasMember(decls[FindDecl(decls, name, 1)], sch[i].name)
          /\ sch[i].type.kind = "struct" =>
                FieldsAreMembers(sch[i].type.struct, capitalize(sch[i].name), decls)
          /\ (sch[i].type.kind = "array" /\ sch[i].type.hasStruct) =>
                FieldsAreMembers(sch[i].type.struct, capitalize(sch[i].name) \o "Element", decls)

\* C25: in the generated text of every schema, nested ones included, every struct
\* type name a member refers to is declared exactly once and before its first use,
\* and every schema field is a member of its owning struct.
C25_StructsDeclaredFieldsPresent ==
    (bindings # Null /\ bindings.ok) =>
        /\ RefsDeclared(bindings.structs)
        /\ FieldsAreMembers(schema, "Uniforms", bindings.structs)

(***************************************************************************)
(* Claims on the size of the textures loadTexture creates (SpecScale)      *)
(***************************************************************************)
\* call i of loadTexture created a texture, and the texture it created
Stored(i) == loads[i].pc = "loaded"

TextureOf(i) == gpu[textures[loads[i].index + 1]]

WithinLimit(image) == image[1] <= maxTextureSize /\ image[2] <= maxTextureSize

\* floor(d * min(M / w, M / h)) of the rational numbers
ExactScaled(d, image) == (d * maxTextureSize) \div Max(image[1], image[2])

\* d * min(M / w, M / h) is a whole number
WholeScaled(d, image) == (d * maxTextureSize) % Max(image[1], image[2]) = 0

SizeInLimit(texture) ==
    /\ texture.width \in 1..maxTextureSize
    /\ texture.height \in 1..maxTextureSize

\* C26 as stated: the texture of a successful loadTexture is 1..M wide and high; it
\* has the size w x h of an image within the limit, and otherwise the size
\* floor(w * s) x floor(h * s) with s = min(M / w, M / h).
C26_ScaledExactly ==
    \A i \in 1..Len(loads) : Stored(i) =>
        /\ SizeInLimit(TextureOf(i))
        /\ IF WithinLimit(ImageAt(loads[i].url))
           THEN /\ TextureOf(i).width = ImageAt(loads[i].url)[1]
                /\ TextureOf(i).height = ImageAt(loads[i].url)[2]
           ELSE /\ TextureOf(i).width = ExactScaled(ImageAt(loads[i].url)[1], ImageAt(loads[i].url))
                /\ TextureOf(i).height = ExactScaled(ImageAt(loads[i].url)[2], ImageAt(loads[i].url))

\* a dimension scaled in double precision: the floor of the exact product, or, when
\* the exact product is a whole number, possibly one less
ScaledWithin(size, d, image) ==
    /\ size <= ExactScaled(d, image)
    /\ size >= ExactScaled(d, image) - (IF WholeScaled(d, image) THEN 1 ELSE 0)

\* C26 (amended): the texture of a successful loadTexture is 1..M wide and high; it
\* has the size w x h of an image within the limit; otherwise each dimension is
\* floor(d * min(M / w, M / h)), or one less than that when d * min(M / w, M / h) is
\* a whole number.
C26_ScaledInDoublePrecision ==
    \A i \in 1..Len(loads) : Stored(i) =>
        /\ SizeInLimit(TextureOf(i))
        /\ IF WithinLimit(ImageAt(loads[i].url))
           THEN /\ TextureOf(i).width = ImageAt(loads[i].url)[1]
                /\ TextureOf(i).height = ImageAt(loads[i].url)[2]
           ELSE /\ ScaledWithin(TextureOf(i).width, ImageAt(loads[i].url)[1], ImageAt(loads[i].url))
                /\ ScaledWithin(TextureOf(i).height, ImageAt(loads[i].url)[2], ImageAt(loads[i].url))

\* a 49 x 49 image was stored, 3 x 3, beside an 8 x 4 image stored 4 x 2
C26_Witness ==
    \E i, j \in 1..Len(loads) :
        /\ Stored(i) /\ ImageAt(loads[i].url) = <<49, 49>>
        /\ TextureOf(i).width = maxTextureSize - 1
        /\ Stored(j) /\ ImageAt(loads[j].url) = <<8, 4>>
        /\ TextureOf(j).width = maxTextureSize

(***************************************************************************)
(* Claims on loads, resizes and destroy() running together (SpecRenderer)  *)
(***************************************************************************)
\* C27: the number of loaded textures never exceeds maxTextures, and every slot index
\* a loadTexture call returned is below maxTextures, also when several calls for
\* distinct URLs passed the budget check before any of them completed.
C27_TexturesWithinBudget ==
    /\ Len(textures) <= maxTextures
    /\ \A i \in 1..Len(loads) : Returned(loads[i]) => loads[i].index < maxTextures

\* both bind groups bind the output texture the renderer holds, and it is live
OutputTextureCurrent ==
    /\ BoundAt(held.computeBindGroup, 1) = held.outputTexture
    /\ BoundAt(held.displayBindGroup, 0) = held.outputTexture
    /\ held.outputTexture \in DOMAIN gpu
    /\ ~gpu[held.outputTexture].destroyed

\* the texture of every loadTexture call that has resolved with a slot index is bound
ResolvedTexturesBound ==
    \A j \in 1..Len(loads) :
        loads[j].pc = "loaded" =>
            textures[loads[j].index + 1] \in ResourcesOf(held.computeBindGroup)

\* C28: on a ready, not destroyed renderer, whatever the interleaving of resizes, load
\* completions and draws, both bind groups reference the current, live output texture
\* and the compute bind group binds every loaded texture i < maxTextures at slot i;
\* no draw records a pass with a bind group that references a destroyed output
\* texture or misses a texture whose loadTexture has already resolved.
C28_BindGroupsCurrent ==
    Ready =>
        /\ OutputTextureCurrent
        /\ ComputeBindGroupCurrent
        /\ lastCall = "draw" =>
              /\ commands[3].id = held.outputTexture
              /\ commands[4].id = held.outputTexture
              /\ ResolvedTexturesBound

\* the step created an object on the device
CreatedSomething == \E k \in 1..Len(commands) : commands[k].op = "create"

\* the steps in which an initialize() or a loadTexture() in flight goes on
Continuations == {"adapter", "device", "fetch", "decode", "resizeImage"}

\* C29: after destroy() has run, an initialize() or a loadTexture() that was in flight
\* creates no buffer, pipeline or texture when it completes, appends nothing to the
\* texture array and adds no URL-cache entry, and in every state after destroy() the
\* renderer holds no live buffer or texture.
C29_NothingAfterDestroy ==
    destroyCalled =>
        /\ lastCall \in Continuations => ~CreatedSomething
        /\ textures = <<>>
        /\ textureCache = {}
        /\ \A id \in DOMAIN gpu : gpu[id].kind \in Destroyable => gpu[id].destroyed

(***************************************************************************)
(* Claims on isReady() (SpecRenderer)                                      *)
(***************************************************************************)
\* every resource draw() and resize() use exists
ResourcesExist ==
    /\ held.computePipeline # 0
    /\ held.displayPipeline # 0
    /\ held.uniformBuffer # 0
    /\ held.verticesBuffer # 0
    /\ held.outputTexture # 0
    /\ held.renderPassDescriptor
    /\ held.computeBindGroup # NoBindGroup
    /\ held.displayBindGroup # NoBindGroup

\* C30: isReady() is true only when every resource draw() and resize() use exists;
\* when initialize() failed after the device was acquired, isReady() stays false and a
\* draw() is rejected with the not-initialized error: it packs nothing and records
\* nothing.
C30_ReadyMeansResources ==
    /\ isReady => ResourcesExist
    /\ phase = "failed" =>
          /\ ~isReady
          /\ lastCall = "draw" => (threw /\ commands = <<>> /\ lastData = Null)
=============================================================================
